---- MODULE Spec2Model ----
(***************************************************************************)
(* Remote-authorization bridge: the in-memory request store, the           *)
(* permission rules, the hook endpoints, the card-action handler and the   *)
(* hook script's blocking poll client.                                     *)
(*                                                                         *)
(* Strings are TLA+ strings; JavaScript `undefined` is the distinguished   *)
(* string Undefined, and an absent timestamp is NoTime.  Request ids       *)
(* (randomUUID) are the fresh naturals 1, 2, ...; 0 stands for a missing   *)
(* (falsy) requestId in an event or query.  Time is one integer clock,     *)
(* Date.now(), in scaled units.                                            *)
(***************************************************************************)
EXTENDS Integers, Sequences, FiniteSets, TLC

\* ------------------------------------------------------------------ bounds
MaxTime == 5          \* the clock stops here
MaxReq  == 1          \* requests created in one behaviour

\* ------------------------------------------------------- program constants
AUTH_TTL_MS      == 2 \* auth-store.ts: AUTH_TTL_MS (scaled)
POLL_INTERVAL_MS == 1 \* notify.js: POLL_INTERVAL_MS (scaled)
POLL_TIMEOUT_MS  == 2 \* notify.js: POLL_TIMEOUT_MS (scaled)

Undefined == "<undefined>"
NoTime    == -1

\* ------------------------------------------------------- string primitives
Char(s, i) == SubSeq(s, i, i)

Rest(s, i) == SubSeq(s, i, Len(s))

Upper == "ABCDEFGHIJKLMNOPQRSTUVWXYZ"

Lower == "abcdefghijklmnopqrstuvwxyz"

LowerOf == [c \in {Char(Upper, k) : k \in 1..26} |->
              Char(Lower, CHOOSE k \in 1..26 : Char(Upper, k) = c)]

lowerChar(c) == IF c \in DOMAIN LowerOf THEN LowerOf[c] ELSE c

RECURSIVE toLowerCase(_)
toLowerCase(s) ==
  IF s = "" THEN "" ELSE lowerChar(Char(s, 1)) \o toLowerCase(Rest(s, 2))

includes(s, sub) ==
  \E i \in 0..(Len(s) - Len(sub)) : SubSeq(s, i + 1, i + Len(sub)) = sub

startsWith(s, p) == Len(p) <= Len(s) /\ SubSeq(s, 1, Len(p)) = p

IsWs(c) == c \in {" ", "\t", "\n", "\r"}

RECURSIVE trimStart(_)
trimStart(s) == IF s /= "" /\ IsWs(Char(s, 1)) THEN trimStart(Rest(s, 2)) ELSE s

RECURSIVE trimEnd(_)
trimEnd(s) ==
  IF s /= "" /\ IsWs(Char(s, Len(s))) THEN trimEnd(SubSeq(s, 1, Len(s) - 1)) ELSE s

trim(s) == trimEnd(trimStart(s))

\* JavaScript truthiness of an optional string
Truthy(x) == x /= Undefined /\ x /= ""

\* ------------------------------------------------------------ AuthStore
\* The store is the Map `requests`: a function from the ids it holds to records.

NewRequest(id, data, t) ==
  [ requestId       |-> id,
    sessionId       |-> data.sessionId,
    tool            |-> data.tool,
    command         |-> data.command,
    options         |-> data.options,
    cwd             |-> data.cwd,
    status          |-> "pending",
    decision        |-> Undefined,
    decisionReason  |-> Undefined,
    createdAt       |-> t,
    resolvedAt      |-> NoTime,
    feishuMessageId |-> Undefined,
    chatId          |-> Undefined ]

AuthStore_create(reqs, id, data, t) ==
  [i \in DOMAIN reqs \cup {id} |-> IF i = id THEN NewRequest(id, data, t) ELSE reqs[i]]

\* a lazy expiry that forgets the status test
IsExpiredNow_anyStatus(req, t) == t - req.createdAt > AUTH_TTL_MS

\* a lazy expiry that waits twice the TTL
IsExpiredNow_late(req, t) ==
  req.status = "pending" /\ t - req.createdAt > AUTH_TTL_MS * 2

\* the lazy expiry test of get()
IsExpiredNow(req, t) == req.status = "pending" /\ t - req.createdAt > AUTH_TTL_MS

\* the store after get(id); the value get returns is the record of id in it
AuthStore_get(reqs, id, t) ==
  IF id \notin DOMAIN reqs THEN reqs
  ELSE IF IsExpiredNow(reqs[id], t)
       THEN [reqs EXCEPT ![id].status = "expired"]
       ELSE reqs

\* a resolve without the status gate
ResolveGate_open(req) == TRUE

\* the status gate of resolve(): only a pending request is resolved
ResolveGate(req) == req.status = "pending"

\* a resolve that does not store the reason
AuthStore_resolve_noReason(reqs, id, decision, reason, t) ==
  IF id \notin DOMAIN reqs THEN reqs
  ELSE IF ~ResolveGate(reqs[id]) THEN reqs
  ELSE [reqs EXCEPT ![id].status = "resolved", ![id].decision = decision,
                    ![id].resolvedAt = t]

\* the store after resolve(id, decision, reason)
AuthStore_resolve(reqs, id, decision, reason, t) ==
  IF id \notin DOMAIN reqs THEN reqs
  ELSE IF ~ResolveGate(reqs[id]) THEN reqs
  ELSE [reqs EXCEPT ![id].status = "resolved",
                    ![id].decision = decision,
                    ![id].decisionReason = reason,
                    ![id].resolvedAt = t]

\* a cleanup that spares the requests already resolved
CleanupVictims_unresolvedOnly(reqs, t) ==
  {i \in DOMAIN reqs : reqs[i].status /= "resolved"
                        /\ t - reqs[i].createdAt > AUTH_TTL_MS * 2}

\* cleanup(): the ids it deletes, and the store after it
CleanupVictims(reqs, t) == {i \in DOMAIN reqs : t - reqs[i].createdAt > AUTH_TTL_MS * 2}

AuthStore_cleanup(reqs, t) ==
  [i \in DOMAIN reqs \ CleanupVictims(reqs, t) |-> reqs[i]]

\* ------------------------------------------------- PermissionRuleStore
\* A rule is a record; `rules` is the array, in insertion order.

\* matchGlob's translation of a glob into a regular expression, as the list
\* of the atoms of the regular expression it builds
RECURSIVE globToRegex(_)
globToRegex(pattern) ==
  IF pattern = "" THEN <<>>
  ELSE LET char == Char(pattern, 1) IN
       IF char = "*" /\ Len(pattern) >= 2 /\ Char(pattern, 2) = "*"
       THEN <<[k |-> "anyStar"]>> \o globToRegex(Rest(pattern, 3))
       ELSE IF char = "*"
       THEN <<[k |-> "noSlashStar"]>> \o globToRegex(Rest(pattern, 2))
       ELSE IF char = "?"
       THEN <<[k |-> "any"]>> \o globToRegex(Rest(pattern, 2))
       ELSE <<[k |-> "lit", c |-> char]>> \o globToRegex(Rest(pattern, 2))

\* `.` of a JavaScript regular expression without the s flag
DotMatches(c) == c \notin {"\n", "\r"}

AtomMatches(atom, c) ==
  CASE atom.k = "lit"         -> c = atom.c
    [] atom.k = "any"         -> DotMatches(c)
    [] atom.k = "anyStar"     -> DotMatches(c)
    [] atom.k = "noSlashStar" -> c /= "/"

IsStar(atom) == atom.k \in {"anyStar", "noSlashStar"}

\* new RegExp(`^${regexStr}$`).test(text): the whole text must match
RECURSIVE regexTest(_, _)
regexTest(re, text) ==
  IF re = <<>> THEN text = ""
  ELSE LET atom == Head(re) IN
       IF IsStar(atom)
       THEN \E n \in 0..Len(text) :
              /\ \A i \in 1..n : AtomMatches(atom, Char(text, i))
              /\ regexTest(Tail(re), Rest(text, n + 1))
       ELSE /\ text /= ""
            /\ AtomMatches(atom, Char(text, 1))
            /\ regexTest(Tail(re), Rest(text, 2))

\* a matcher that reads every * alone, as [^/]*
matchGlob_singleStars(pattern, text) ==
  regexTest([i \in 1..Len(pattern) |->
               IF Char(pattern, i) = "*" THEN [k |-> "noSlashStar"]
               ELSE IF Char(pattern, i) = "?" THEN [k |-> "any"]
               ELSE [k |-> "lit", c |-> Char(pattern, i)]], text)

matchGlob(pattern, text) == regexTest(globToRegex(pattern), text)

\* conditions that take no rule for a request without a directory
RuleMatches_needsDirectory(rule, tool, command, projectPath) ==
  /\ rule.tool = tool
  /\ Truthy(projectPath)
  /\ (rule.scope = "project" /\ Truthy(rule.projectPath))
       => startsWith(projectPath, rule.projectPath)
  /\ Truthy(rule.commandPattern)
       => (Truthy(command) /\ matchGlob(rule.commandPattern, command))

\* the conditions under which match() takes a rule
RuleMatches(rule, tool, command, projectPath) ==
  /\ rule.tool = tool
  /\ (rule.scope = "project" /\ Truthy(rule.projectPath))
       => (Truthy(projectPath) /\ startsWith(projectPath, rule.projectPath))
  /\ Truthy(rule.commandPattern)
       => (Truthy(command) /\ matchGlob(rule.commandPattern, command))

\* match(): the index of the first rule taken, 0 for null
PermissionRules_match(rs, tool, command, projectPath) ==
  IF \E i \in 1..Len(rs) : RuleMatches(rs[i], tool, command, projectPath)
  THEN CHOOSE i \in 1..Len(rs) :
         /\ RuleMatches(rs[i], tool, command, projectPath)
         /\ \A j \in 1..(i - 1) : ~RuleMatches(rs[j], tool, command, projectPath)
  ELSE 0

\* an addRule that puts the new rule in front of the array
PermissionRules_addRule_front(rs, id, rule) ==
  <<[ id             |-> id,
      tool           |-> rule.tool,
      commandPattern |-> rule.commandPattern,
      projectPath    |-> rule.projectPath,
      scope          |-> rule.scope ]>> \o rs

\* (a rule's createdAt is written and never read: it is left out)
PermissionRules_addRule(rs, id, rule) ==
  Append(rs, [ id             |-> id,
               tool           |-> rule.tool,
               commandPattern |-> rule.commandPattern,
               projectPath    |-> rule.projectPath,
               scope          |-> rule.scope ])

\* removeRule(id): the array without the first rule whose id is id
PermissionRules_removeRule(rs, id) ==
  IF \A i \in 1..Len(rs) : rs[i].id /= id THEN rs
  ELSE LET index == CHOOSE i \in 1..Len(rs) :
                      rs[i].id = id /\ \A j \in 1..(i - 1) : rs[j].id /= id
       IN SubSeq(rs, 1, index - 1) \o SubSeq(rs, index + 1, Len(rs))

\* command.trim().split(/\s+/)
RECURSIVE splitWs(_, _)
splitWs(s, cur) ==
  IF s = "" THEN <<cur>>
  ELSE IF IsWs(Char(s, 1))
       THEN <<cur>> \o splitWs(trimStart(s), "")
       ELSE splitWs(Rest(s, 2), cur \o Char(s, 1))

\* a pattern that keeps the command's first token only
createPatternFromCommand_firstToken(command) ==
  splitWs(trim(command), "")[1] \o "**"

createPatternFromCommand(command) ==
  LET parts == splitWs(trim(command), "") IN
  IF Len(parts) >= 2 THEN parts[1] \o " " \o parts[2] \o "**"
  ELSE parts[1] \o "**"

getNormalizedProjectPath(projectPath) == projectPath

\* -------------------------------------------------------- AlertScheduler
\* pendingAlerts is the Map, as the set of its entries (one per messageId);
\* timers are the setTimeout timers that are armed; sending are the urgent
\* messages whose create() call has not returned; sent is the log of the
\* create() calls made (timerId: the timer whose callback made the call,
\* alert: the timer of the entry it sent, receive_id: whom it is addressed
\* to); cleared are the timers clearTimeout
\* stopped before they fired; nextTimer counts the timers created
NoAlerts ==
  [pendingAlerts |-> {}, timers |-> {}, sending |-> {}, sent |-> <<>>,
   cleared |-> {}, nextTimer |-> 0]

\* pendingAlerts.get(messageId), as the set of the entries got
PendingAlertsGet(s, messageId) == {a \in s.pendingAlerts : a.messageId = messageId}

\* a cancelAlert that writes its log line and stops nothing
AlertScheduler_cancelAlert_logsOnly(s, messageId) ==
  IF PendingAlertsGet(s, messageId) = {} THEN s
  ELSE LET alert == CHOOSE a \in s.pendingAlerts : a.messageId = messageId IN
       [s EXCEPT !.cleared = @ \cup {t \in s.timers : t.id = alert.timerId}]

\* cancelAlert(messageId)
AlertScheduler_cancelAlert(s, messageId) ==
  IF PendingAlertsGet(s, messageId) = {} THEN s
  ELSE LET alert == CHOOSE a \in s.pendingAlerts : a.messageId = messageId IN
       [s EXCEPT !.timers = {t \in @ : t.id /= alert.timerId},
                 !.cleared = @ \cup {t \in s.timers : t.id = alert.timerId},
                 !.pendingAlerts = @ \ {alert}]

\* a scheduleAlert that does not ask isWorkingHours()
AlertScheduler_scheduleAlert_anyHour(s, messageId, config, working, t) ==
  LET c  == AlertScheduler_cancelAlert(s, messageId)
      id == c.nextTimer + 1
  IN [c EXCEPT !.nextTimer = id,
               !.timers = @ \cup {[id |-> id, messageId |-> messageId,
                                   due |-> t + config.delayMinutes]},
               !.pendingAlerts =
                  {a \in @ : a.messageId /= messageId}
                  \cup {[messageId |-> messageId, timerId |-> id,
                          adminUserId |-> config.adminUserId,
                          type |-> config.type, createdAt |-> t]}]

\* scheduleAlert(messageId, config); working is what isWorkingHours() returns
AlertScheduler_scheduleAlert(s, messageId, config, working, t) ==
  IF ~working THEN s
  ELSE LET c  == AlertScheduler_cancelAlert(s, messageId)
           id == c.nextTimer + 1
       IN [c EXCEPT !.nextTimer = id,
                    !.timers = @ \cup {[id |-> id, messageId |-> messageId,
                                        due |-> t + config.delayMinutes]},
                    !.pendingAlerts =
                       {a \in @ : a.messageId /= messageId}
                       \cup {[messageId |-> messageId, timerId |-> id,
                               adminUserId |-> config.adminUserId,
                               type |-> config.type, createdAt |-> t]}]

\* the timer callback: the timer is spent, and sendUrgentAlert(messageId) runs
\* up to its await of feishuClient.im.message.create
AlertScheduler_timerFires(s, timer, t) ==
  LET spent == [s EXCEPT !.timers = @ \ {timer}] IN
  IF PendingAlertsGet(s, timer.messageId) = {} THEN spent
  ELSE LET alert == CHOOSE a \in s.pendingAlerts : a.messageId = timer.messageId IN
       [spent EXCEPT !.sent = Append(@, [messageId |-> alert.messageId,
                                        timerId |-> timer.id,
                                        alert |-> alert.timerId,
                                        receive_id |-> alert.adminUserId,
                                        at |-> t]),
                     !.sending = @ \cup {[messageId |-> alert.messageId,
                                          timerId |-> timer.id]}]

\* a sendUrgentAlert that forgets the alert only when create() answered
AlertScheduler_sendEnds_keepsFailed(s, send, outcome) ==
  [s EXCEPT !.sending = @ \ {send},
            !.pendingAlerts = IF outcome = "throw" THEN @
                              ELSE {a \in @ : a.messageId /= send.messageId}]

\* sendUrgentAlert after the await: whatever create() did, the finally block
\* deletes the entry of messageId
AlertScheduler_sendEnds(s, send, outcome) ==
  [s EXCEPT !.sending = @ \ {send},
            !.pendingAlerts = {a \in @ : a.messageId /= send.messageId}]

\* getPendingCount()
AlertScheduler_getPendingCount(s) == Cardinality(s.pendingAlerts)

\* --------------------------------------------------------- session manager
MaxMsgs == 3          \* messages received in one behaviour

\* SESSION_MAX_CONCURRENT
MAX_CONCURRENT == 2

Sessions == {"s1", "s2"}

\* runningProcesses holds no child for the session
NoChild == 0

\* the module after import: empty maps, no call in progress, no process.
\* A message is named by its arrival number; a child process is named by
\* the message it was spawned for.
NoSessions ==
  [runningProcesses |-> [s \in Sessions |-> NoChild],
   sessionQueues |-> [s \in Sessions |-> <<>>],
   awaiting |-> {},   \* calls of continueSession waiting for sendCardMessage
   children |-> {},   \* the Claude processes that were spawned and not ended
   started |-> [s \in Sessions |-> <<>>],  \* the messages spawned, in order
   refused |-> {},    \* the messages refused by the concurrency limit
   arrived |-> 0]     \* the messages received so far

\* getRunningCount(): runningProcesses.size
getRunningCount(sm) ==
  Cardinality({s \in Sessions : sm.runningProcesses[s] /= NoChild})

\* continueSession up to its first await: queue the message when the
\* session has a process, otherwise go on to send the card
continueSession(sm, sessionId, prompt) ==
  IF sm.runningProcesses[sessionId] /= NoChild
  THEN [sm EXCEPT !.sessionQueues[sessionId] = Append(@, prompt)]
  ELSE [sm EXCEPT !.awaiting =
                    @ \cup {[sessionId |-> sessionId, prompt |-> prompt]}]

\* the rest of continueSession, after sendCardMessage: spawnClaudeProcess
spawnClaudeProcess(sm, call) ==
  IF getRunningCount(sm) >= MAX_CONCURRENT
  THEN [sm EXCEPT !.awaiting = @ \ {call},
                  !.refused = @ \cup {call.prompt}]
  ELSE [sm EXCEPT !.awaiting = @ \ {call},
                  !.children = @ \cup {call},
                  !.runningProcesses[call.sessionId] = call.prompt,
                  !.started[call.sessionId] = Append(@, call.prompt)]

\* processQueue(sessionId)
processQueue(sm, sessionId) ==
  LET queue == sm.sessionQueues[sessionId] IN
  IF queue = <<>>
  THEN sm
  ELSE continueSession([sm EXCEPT !.sessionQueues[sessionId] = Tail(queue)],
                       sessionId, Head(queue))

\* child.on('error')
childOnError(sm, child) ==
  [sm EXCEPT !.children = @ \ {child},
             !.runningProcesses[child.sessionId] = NoChild]

\* child.on('exit')
childOnExit(sm, child) ==
  processQueue(childOnError(sm, child), child.sessionId)

\* ------------------------------------------------------------- inputs
\* option labels a card button can carry
Labels == {"Yes", "No", "Yes, always", "Yes, don't ask again for this project"}

\* request bodies the hook script posts to /pre-tool
Bodies ==
  { [session_id |-> "s1", tool_name |-> "Bash", command |-> "docker push img",
     json |-> "{}", cwd |-> "/p/a", options |-> <<"Yes", "Yes, always", "No">>],
    [session_id |-> "s2", tool_name |-> "Write", command |-> Undefined,
     json |-> "{\"file_path\":\"/p/b/x\"}", cwd |-> Undefined, options |-> <<>>] }

\* what sending the authorization card can do: deliver it, have no target
\* (sendCardMessage returns null), or throw after the retry
SendOutcomes == {"sent", "none", "throw"}

\* the message id Feishu gives the card of request id
MessageIdOf(id) == "om_" \o ToString(id)

\* ------------------------------------------- the hook script's own state
\* process.exitCode while the script is still running
NoExit == -1

\* nothing written to stdout
NoOutput ==
  [hookEventName |-> Undefined, decision |-> Undefined, reason |-> Undefined,
   updatedPermissions |-> <<>>]

\* no poll response parsed yet
NoReply ==
  [http |-> 0, status |-> Undefined, decision |-> Undefined, reason |-> Undefined]

\* the JSON the script reads from stdin
NoInput ==
  [session_id |-> Undefined, tool_name |-> Undefined, command |-> Undefined,
   json |-> Undefined, cwd |-> Undefined, options |-> <<>>,
   permission_suggestions |-> <<>>]

\* the script before it is started
IdleHook ==
  [pc |-> "idle", script |-> Undefined, hookType |-> Undefined,
   payload |-> NoInput, requestId |-> 0, startTime |-> NoTime,
   wakeAt |-> NoTime, endedAt |-> NoTime, out |-> NoOutput, exit |-> NoExit,
   contacted |-> FALSE, failure |-> "none", reply |-> NoReply,
   failedPolls |-> FALSE, okPolls |-> FALSE, unknown |-> FALSE]

\* ------------------------------------------------------------------ state
VARIABLES
  now,        \* Date.now()
  requests,   \* AuthStore.requests
  nextId,     \* number of request ids drawn so far
  rules,      \* PermissionRuleStore.rules
  ruleIds,    \* number of rule ids drawn so far
  last,       \* the last operation: its name, its inputs and what it returned
  first,      \* per request, the first resolve made while it was pending
  lost,       \* per request id, how the store lost its record, "no" if it did not
  hook,       \* the run of the hook script notify.js
  alertScheduler, \* the AlertScheduler, its timers and the escalations it sent
  processedEvents, \* the event ids the webhook remembers, oldest first
  dispatched, \* the event ids the webhook has handed to a handler so far
  sessionManager \* the session manager's maps, calls and Claude processes

vars == <<now, requests, nextId, rules, ruleIds, last, first, lost, hook,
          alertScheduler, processedEvents, dispatched, sessionManager>>

NoResolve == [decision |-> Undefined, reason |-> Undefined]

Init ==
  /\ now = 0
  /\ requests = <<>>
  /\ nextId = 0
  /\ rules = <<>>
  /\ ruleIds = 0
  /\ last = [op |-> "init"]
  /\ first = [i \in 1..(MaxReq + 1) |-> NoResolve]
  /\ lost = [i \in 1..(MaxReq + 1) |-> "no"]
  /\ hook = IdleHook
  /\ alertScheduler = NoAlerts
  /\ processedEvents = <<>>
  /\ dispatched = {}
  /\ sessionManager = NoSessions

\* the clock advances
Tick ==
  /\ now < MaxTime
  /\ now' = now + 1
  /\ last' = [op |-> "tick"]
  /\ UNCHANGED <<requests, nextId, rules, ruleIds, first, lost, hook, alertScheduler,
                 processedEvents, dispatched, sessionManager>>

\* setInterval(() => authStore.cleanup(), AUTH_TTL_MS)
Cleanup ==
  /\ CleanupVictims(requests, now) /= {}
  /\ requests' = AuthStore_cleanup(requests, now)
  /\ first' = [i \in DOMAIN first |->
                IF i \in CleanupVictims(requests, now) THEN NoResolve ELSE first[i]]
  /\ lost' = [i \in DOMAIN lost |->
               IF i \in CleanupVictims(requests, now) THEN "cleanup" ELSE lost[i]]
  /\ last' = [op |-> "cleanup", count |-> Cardinality(CleanupVictims(requests, now))]
  /\ UNCHANGED <<now, nextId, rules, ruleIds, hook, alertScheduler,
                 processedEvents, dispatched, sessionManager>>

\* the server process restarts: a new AuthStore starts with an empty Map, the
\* rules are loaded back from the rules file
Restart ==
  /\ DOMAIN requests /= {}
  /\ requests' = <<>>
  /\ first' = [i \in DOMAIN first |-> NoResolve]
  /\ lost' = [i \in DOMAIN lost |-> IF i \in DOMAIN requests THEN "restart" ELSE lost[i]]
  /\ last' = [op |-> "restart"]
  /\ UNCHANGED <<now, nextId, rules, ruleIds, hook, alertScheduler,
                 processedEvents, dispatched, sessionManager>>

\* ------------------------------------------------ POST /api/hook/pre-tool
\* the command the endpoint extracts from the body
ExtractCommand(body) ==
  IF body.tool_name = "Bash" THEN body.command ELSE body.json

ResolvedOptions(options) == IF Len(options) > 0 THEN options ELSE <<"Yes", "No">>

\* the store and the HTTP response after the endpoint has handled body; id is
\* the uuid create() would draw and send what delivering the card does
PreToolEndpoint(reqs, rs, id, body, send, t) ==
  LET command == ExtractCommand(body)
      m       == PermissionRules_match(rs, body.tool_name, command, body.cwd)
      created == AuthStore_create(reqs, id,
                   [ sessionId |-> body.session_id, tool |-> body.tool_name,
                     command |-> command, options |-> ResolvedOptions(body.options),
                     cwd |-> body.cwd ], t)
  IN
  IF m /= 0
  THEN [ requests |-> reqs, created |-> FALSE,
         response |-> [ http |-> 200, requestId |-> 0, decision |-> "allow",
                        reason |-> "rule matched", ruleId |-> rs[m].id ] ]
  ELSE IF send = "throw"
  THEN [ requests |-> created, created |-> TRUE,
         response |-> [ http |-> 500, requestId |-> 0, decision |-> Undefined,
                        reason |-> Undefined, ruleId |-> 0 ] ]
  ELSE [ requests |-> IF send = "sent"
                      THEN [created EXCEPT ![id].feishuMessageId = MessageIdOf(id),
                                           ![id].chatId = "oc_chat"]
                      ELSE created,
         created |-> TRUE,
         response |-> [ http |-> 200, requestId |-> id, decision |-> Undefined,
                        reason |-> Undefined, ruleId |-> 0 ] ]

\* a caller posts body to /pre-tool
PreTool ==
  \E body \in Bodies, send \in SendOutcomes :
    LET out == PreToolEndpoint(requests, rules, nextId + 1, body, send, now) IN
    /\ out.created => nextId < MaxReq
    /\ requests' = out.requests
    /\ nextId' = IF out.created THEN nextId + 1 ELSE nextId
    /\ last' = [op |-> "preTool", response |-> out.response]
    /\ UNCHANGED <<now, rules, ruleIds, first, lost, hook, alertScheduler,
                   processedEvents, dispatched, sessionManager>>

\* a poll endpoint that answers an unknown requestId with 404
AuthPollEndpoint_notFound(reqs, id, t) ==
  LET after == AuthStore_get(reqs, id, t) IN
  IF id = 0 \/ id \notin DOMAIN after
  THEN [ requests |-> after,
         response |-> [http |-> IF id = 0 THEN 400 ELSE 404, status |-> Undefined,
                       decision |-> Undefined, reason |-> Undefined] ]
  ELSE [ requests |-> after,
         response |-> [http |-> 200, status |-> after[id].status,
                       decision |-> after[id].decision,
                       reason |-> after[id].decisionReason] ]

\* ------------------------------------------------ GET /api/hook/auth-poll
AuthPollEndpoint(reqs, id, t) ==
  LET after == AuthStore_get(reqs, id, t) IN
  IF id = 0
  THEN [ requests |-> reqs,
         response |-> [http |-> 400, status |-> Undefined, decision |-> Undefined,
                       reason |-> Undefined] ]
  ELSE IF id \notin DOMAIN after
  THEN [ requests |-> after,
         response |-> [http |-> 200, status |-> "expired", decision |-> Undefined,
                       reason |-> Undefined] ]
  ELSE [ requests |-> after,
         response |->
           CASE after[id].status = "pending" ->
                  [http |-> 200, status |-> "pending", decision |-> Undefined,
                   reason |-> Undefined]
             [] after[id].status = "resolved" ->
                  [http |-> 200, status |-> "resolved",
                   decision |-> after[id].decision,
                   reason |-> after[id].decisionReason]
             [] after[id].status = "expired" ->
                  [http |-> 200, status |-> "expired", decision |-> Undefined,
                   reason |-> Undefined] ]

\* a caller polls requestId id (0: no requestId in the query)
AuthPoll ==
  \E id \in 0..(MaxReq + 1) :
    LET out == AuthPollEndpoint(requests, id, now) IN
    /\ requests' = out.requests
    /\ last' = [op |-> "authPoll", id |-> id, response |-> out.response]
    /\ UNCHANGED <<now, nextId, rules, ruleIds, first, lost, hook, alertScheduler,
                   processedEvents, dispatched, sessionManager>>

\* ---------------------------------------------------- handleCardAction
\* AUTH_OPTION_MAP and getChineseAuthOption: the label shown for an option
AUTH_OPTION_MAP ==
  [ o \in {"yes", "no", "yes, always", "yes, don't ask again for this project",
           "yes, don't ask again", "allow", "deny", "allow once",
           "allow for this session"} |->
      CASE o = "yes" -> "zh:allow"
        [] o = "no" -> "zh:deny"
        [] o = "yes, always" -> "zh:always allow"
        [] o = "yes, don't ask again for this project" -> "zh:always allow in project"
        [] o = "yes, don't ask again" -> "zh:always allow"
        [] o = "allow" -> "zh:allow"
        [] o = "deny" -> "zh:deny"
        [] o = "allow once" -> "zh:allow once"
        [] o = "allow for this session" -> "zh:allow for session" ]

getChineseAuthOption(option) ==
  LET lower == trim(toLowerCase(option)) IN
  IF lower \in DOMAIN AUTH_OPTION_MAP THEN AUTH_OPTION_MAP[lower] ELSE option

\* a classification that compares the label without lower-casing it
IsReject_caseSensitive(optionText) ==
  /\ optionText /= Undefined
  /\ \/ includes(optionText, "no")
     \/ includes(optionText, "deny")

\* the classification of the chosen label
IsReject(optionText) ==
  /\ optionText /= Undefined
  /\ \/ includes(toLowerCase(optionText), "no")
     \/ includes(toLowerCase(optionText), "deny")

DecisionOf(optionText) == IF IsReject(optionText) THEN "deny" ELSE "allow"

OrEmpty(optionText) == IF Truthy(optionText) THEN optionText ELSE ""

IsAlways(optionText) ==
  \/ includes(toLowerCase(OrEmpty(optionText)), "always")
  \/ includes(toLowerCase(OrEmpty(optionText)), "don't ask again")

IsProjectScope(optionText) == includes(toLowerCase(OrEmpty(optionText)), "project")

\* a derivation that does not look for an always label
DerivesRule_anyLabel(req, optionText) ==
  ~IsReject(optionText) /\ Truthy(req.tool)

\* whether resolving req with optionText adds a rule
DerivesRule(req, optionText) ==
  ~IsReject(optionText) /\ IsAlways(optionText) /\ Truthy(req.tool)

\* the rule handed to addRule
DerivedRule(req, optionText) ==
  [ tool |-> req.tool,
    commandPattern |-> IF Truthy(req.command)
                       THEN createPatternFromCommand(req.command) ELSE Undefined,
    projectPath |-> IF IsProjectScope(optionText) /\ Truthy(req.cwd)
                    THEN getNormalizedProjectPath(req.cwd) ELSE Undefined,
    scope |-> IF IsProjectScope(optionText) THEN "project" ELSE "always" ]

\* a handler that lets a click on an expired request through
AlreadyHandled_resolvedOnly(req) == req.status = "resolved"

\* the duplicate-click test: if (authReq.status !== 'pending')
AlreadyHandled(req) == req.status /= "pending"

\* card events: how action.value decodes, the requestId and label it carries,
\* whether the context names the clicked message
Decodes == {"object", "badjson", "nullish"}

Modes == {"http", "websocket"}

NoAck == [kind |-> "none", decision |-> Undefined, option |-> Undefined,
          returned |-> FALSE, pushed |-> "none"]

\* the acknowledgment: the card returned to the caller (websocket mode) and
\* the card pushed through updateCardMessage to msgId (upd: whether it works)
Acknowledge(kind, decision, option, msgId, mode, upd) ==
  [ kind |-> kind, decision |-> decision, option |-> option,
    returned |-> mode = "websocket",
    pushed |-> IF ~Truthy(msgId) THEN "none" ELSE IF upd THEN "ok" ELSE "failed" ]

\* handleCardAction(event, {mode}): the stores after it, the branch taken,
\* the acknowledgment produced and whether the handler's promise rejects
HandleCardAction(reqs, rs, rid, ev, mode, upd, t) ==
  LET id    == ev.requestId
      after == AuthStore_get(reqs, id, t)
      quiet == [requests |-> reqs, rules |-> rs, ack |-> NoAck, threw |-> FALSE,
                resolved |-> FALSE, added |-> FALSE]
  IN
  IF ev.decode = "badjson" THEN quiet @@ [branch |-> "invalidValue"]
  ELSE IF ev.decode = "nullish"
  THEN [quiet EXCEPT !.threw = TRUE] @@ [branch |-> "typeError"]
  ELSE IF id = 0 THEN
    [quiet EXCEPT
       !.ack = IF ev.hasMsg
               THEN Acknowledge("error", Undefined, Undefined, "om_ctx", mode, upd)
               ELSE NoAck,
       !.threw = ev.hasMsg /\ mode = "http" /\ ~upd] @@ [branch |-> "missingRequestId"]
  ELSE IF id \notin DOMAIN after THEN
    [quiet EXCEPT
       !.ack = IF mode = "websocket" \/ ev.hasMsg
               THEN Acknowledge("expired", Undefined, Undefined,
                                IF ev.hasMsg THEN "om_ctx" ELSE Undefined, mode, upd)
               ELSE NoAck,
       !.threw = ev.hasMsg /\ mode = "http" /\ ~upd] @@ [branch |-> "notFound"]
  ELSE IF AlreadyHandled(after[id]) THEN
    [quiet EXCEPT
       !.requests = after,
       !.ack = IF Truthy(after[id].decision)
               THEN IF mode = "websocket" \/ Truthy(after[id].feishuMessageId)
                    THEN Acknowledge("resolved", after[id].decision,
                           getChineseAuthOption(
                             IF Truthy(after[id].decisionReason)
                             THEN after[id].decisionReason ELSE OrEmpty(ev.label)),
                           after[id].feishuMessageId, mode, upd)
                    ELSE NoAck
               ELSE NoAck] @@ [branch |-> "duplicate"]
  ELSE
    LET req      == after[id]
        decision == DecisionOf(ev.label)
        derive   == DerivesRule(req, ev.label)
    IN
    [ requests |-> AuthStore_resolve(after, id, decision, OrEmpty(ev.label), t),
      rules    |-> IF derive
                   THEN PermissionRules_addRule(rs, rid, DerivedRule(req, ev.label))
                   ELSE rs,
      ack      |-> IF Truthy(req.feishuMessageId)
                   THEN Acknowledge("resolved", decision,
                          getChineseAuthOption(OrEmpty(ev.label)),
                          req.feishuMessageId, mode, upd)
                   ELSE NoAck,
      threw    |-> FALSE,
      resolved |-> TRUE,
      added    |-> derive,
      branch   |-> "resolve" ]

\* an event whose value does not decode carries nothing else that is read
CardEvents ==
  [ decode    : {"object"},
    requestId : 0..(MaxReq + 1),
    label     : Labels \cup {Undefined},
    hasMsg    : BOOLEAN ]
  \cup
  [ decode    : {"badjson", "nullish"},
    requestId : {0},
    label     : {Undefined},
    hasMsg    : {FALSE} ]

\* the first resolve made on id while it was pending: unchanged once set
NoteResolve(f, id, decision, reason) ==
  IF f[id] = NoResolve
  THEN [f EXCEPT ![id] = [decision |-> decision, reason |-> reason]]
  ELSE f

\* Feishu delivers card action ev; the server runs in mode, and upd says
\* whether updateCardMessage succeeds
CardActionWith(ev, mode, upd) ==
  LET out == HandleCardAction(requests, rules, ruleIds + 1, ev, mode, upd, now) IN
  /\ requests' = out.requests
  /\ rules' = out.rules
  /\ ruleIds' = IF out.added THEN ruleIds + 1 ELSE ruleIds
  /\ first' = IF out.branch = "resolve"
              THEN NoteResolve(first, ev.requestId,
                               DecisionOf(ev.label), OrEmpty(ev.label))
              ELSE first
  /\ last' = [op |-> "cardAction", id |-> ev.requestId, label |-> ev.label,
              branch |-> out.branch, ack |-> out.ack, threw |-> out.threw]
  /\ UNCHANGED <<now, nextId, lost, hook, alertScheduler, processedEvents,
                 dispatched, sessionManager>>

\* a card action in the HTTP webhook mode, with the card update API working
CardAction == \E ev \in CardEvents : CardActionWith(ev, "http", TRUE)

\* a card action in either mode, whether or not the card update API works
CardActionAnyDelivery ==
  \E ev \in CardEvents, mode \in Modes, upd \in BOOLEAN : CardActionWith(ev, mode, upd)

\* ------------------------------------------- direct calls of the store
NotFound == [requestId |-> 0]

Returned(reqs, id) == IF id \in DOMAIN reqs THEN reqs[id] ELSE NotFound

\* authStore.create(data)
Create ==
  \E body \in Bodies :
    /\ nextId < MaxReq
    /\ requests' = AuthStore_create(requests, nextId + 1,
                     [ sessionId |-> body.session_id, tool |-> body.tool_name,
                       command |-> ExtractCommand(body),
                       options |-> ResolvedOptions(body.options),
                       cwd |-> body.cwd ], now)
    /\ nextId' = nextId + 1
    /\ last' = [op |-> "create", id |-> nextId + 1]
    /\ UNCHANGED <<now, rules, ruleIds, first, lost, hook, alertScheduler,
                   processedEvents, dispatched, sessionManager>>

\* authStore.get(id)
Get ==
  \E id \in 1..(MaxReq + 1) :
    /\ requests' = AuthStore_get(requests, id, now)
    /\ last' = [op |-> "get", id |-> id]
    /\ UNCHANGED <<now, nextId, rules, ruleIds, first, lost, hook, alertScheduler,
                   processedEvents, dispatched, sessionManager>>

\* authStore.resolve(id, decision, reason)
Resolve ==
  \E id \in 1..(MaxReq + 1), decision \in {"allow", "deny"}, reason \in {"Yes", "No"} :
    /\ requests' = AuthStore_resolve(requests, id, decision, reason, now)
    /\ first' = IF id \in DOMAIN requests /\ requests[id].status = "pending"
                THEN NoteResolve(first, id, decision, reason)
                ELSE first
    /\ last' = [op |-> "resolve", id |-> id]
    /\ UNCHANGED <<now, nextId, rules, ruleIds, lost, hook, alertScheduler,
                   processedEvents, dispatched, sessionManager>>

\* authStore.create(data), for one request more than the servers create
CreateMore ==
  \E body \in Bodies :
    /\ nextId < MaxReq + 1
    /\ requests' = AuthStore_create(requests, nextId + 1,
                     [ sessionId |-> body.session_id, tool |-> body.tool_name,
                       command |-> ExtractCommand(body),
                       options |-> ResolvedOptions(body.options),
                       cwd |-> body.cwd ], now)
    /\ nextId' = nextId + 1
    /\ last' = [op |-> "create", id |-> nextId + 1]
    /\ UNCHANGED <<now, rules, ruleIds, first, lost, hook, alertScheduler,
                   processedEvents, dispatched, sessionManager>>

\* authStore.cleanup(), whatever the store holds; count is what it returns
CleanupCall ==
  LET after == AuthStore_cleanup(requests, now) IN
  /\ requests' = after
  /\ first' = [i \in DOMAIN first |->
                IF i \in DOMAIN requests \ DOMAIN after THEN NoResolve ELSE first[i]]
  /\ lost' = [i \in DOMAIN lost |->
               IF i \in DOMAIN requests \ DOMAIN after THEN "cleanup" ELSE lost[i]]
  /\ last' = [op |-> "cleanup",
              count |-> Cardinality(DOMAIN requests \ DOMAIN after)]
  /\ UNCHANGED <<now, nextId, rules, ruleIds, hook, alertScheduler,
                 processedEvents, dispatched, sessionManager>>

\* ------------------------------------------------------- specifications
\* the server: its endpoints, the card handler, the cleanup timer
Next == Tick \/ Cleanup \/ Restart \/ PreTool \/ AuthPoll \/ CardAction

Spec == Init /\ [][Next]_vars

\* the server under every delivery of the acknowledgment
CardNext == Tick \/ Cleanup \/ Restart \/ PreTool \/ AuthPoll \/ CardActionAnyDelivery

CardSpec == Init /\ [][CardNext]_vars

\* the store under direct calls of its methods, and under card clicks
StoreNext == Tick \/ Cleanup \/ Create \/ Get \/ Resolve \/ CardAction

StoreSpec == Init /\ [][StoreNext]_vars

\* the store with two requests of different ages, under direct calls
CleanupNext == Tick \/ CreateMore \/ Get \/ Resolve \/ CleanupCall

CleanupSpec == Init /\ [][CleanupNext]_vars

\* ------------------------------------- direct calls of the rule store
\* the number of addRule calls
MaxRules == 3

\* rules handed to addRule
RuleInputs ==
  { [tool |-> "Bash", commandPattern |-> "docker push**",
     projectPath |-> Undefined, scope |-> "always"],
    [tool |-> "Bash", commandPattern |-> "docker push**",
     projectPath |-> "/p/a", scope |-> "project"],
    [tool |-> "Write", commandPattern |-> Undefined,
     projectPath |-> Undefined, scope |-> "always"] }

\* the arguments of match()
MatchTools == {"Bash", "Write"}

MatchCommands == {"docker push img", "git push", Undefined}

MatchPaths == {"/p/a", "/p/a/sub", "/p/ab", Undefined}

\* match() returning null
NoRule ==
  [id |-> 0, tool |-> Undefined, commandPattern |-> Undefined,
   projectPath |-> Undefined, scope |-> Undefined]

\* permissionRules.addRule(rule)
AddRule ==
  \E rule \in RuleInputs :
    /\ ruleIds < MaxRules
    /\ rules' = PermissionRules_addRule(rules, ruleIds + 1, rule)
    /\ ruleIds' = ruleIds + 1
    /\ last' = [op |-> "addRule", id |-> ruleIds + 1]
    /\ UNCHANGED <<now, requests, nextId, first, lost, hook, alertScheduler,
                   processedEvents, dispatched, sessionManager>>

\* permissionRules.removeRule(id)
RemoveRule ==
  \E id \in 1..(MaxRules + 1) :
    /\ rules' = PermissionRules_removeRule(rules, id)
    /\ last' = [op |-> "removeRule", id |-> id,
                returned |-> \E i \in 1..Len(rules) : rules[i].id = id]
    /\ UNCHANGED <<now, requests, nextId, ruleIds, first, lost, hook, alertScheduler,
                   processedEvents, dispatched, sessionManager>>

\* permissionRules.match(tool, command, projectPath)
Match ==
  \E tool \in MatchTools, command \in MatchCommands, projectPath \in MatchPaths :
    LET m == PermissionRules_match(rules, tool, command, projectPath) IN
    /\ last' = [op |-> "match", tool |-> tool, command |-> command,
                projectPath |-> projectPath,
                returned |-> IF m = 0 THEN NoRule ELSE rules[m]]
    /\ UNCHANGED <<now, requests, nextId, rules, ruleIds, first, lost, hook, alertScheduler,
                   processedEvents, dispatched, sessionManager>>

RuleStoreNext == AddRule \/ RemoveRule \/ Match

RuleStoreSpec == Init /\ [][RuleStoreNext]_vars

\* ------------------------------------------- direct calls of matchGlob
\* command patterns and commands handed to matchGlob
GlobPatterns ==
  { "docker push**", "docker*", "/p/*", "/p/**", "a?c", "a.c", "*", "**",
    "a**c", "?", "a*b*", "x+y", "git push**" }

GlobTexts ==
  { "docker push img", "docker/push", "/p/a", "/p/a/b", "abc", "a.c", "a\nc",
    "", "a/c", "x+y", "/", "ab/b", "git push", "git push origin main",
    "git pull", "git push origin main\necho done", "git  push -f" }

\* a pattern and a command have been chosen
GlobInit ==
  /\ Init!1 /\ Init!2 /\ Init!3 /\ Init!4 /\ Init!5 /\ Init!7 /\ Init!8 /\ Init!9
  /\ Init!10 /\ Init!11 /\ Init!12 /\ Init!13
  /\ last \in [op : {"input"}, pattern : GlobPatterns, text : GlobTexts]

\* matchGlob(pattern, text)
MatchGlobCall ==
  /\ last.op = "input"
  /\ last' = [op |-> "matchGlob", pattern |-> last.pattern, text |-> last.text,
              returned |-> matchGlob(last.pattern, last.text)]
  /\ UNCHANGED <<now, requests, nextId, rules, ruleIds, first, lost, hook, alertScheduler,
                 processedEvents, dispatched, sessionManager>>

GlobNext == MatchGlobCall

GlobSpec == GlobInit /\ [][GlobNext]_vars

\* ------------------------------------------------------- sendWithRetry
\* what sendCardMessage returns when it does not throw: the message sent to
\* chatId, or null when there is no target
NoCardSent == [messageId |-> Undefined, chatId |-> Undefined]

SendCardResult(outcome, chatId) ==
  IF outcome = "sent" THEN [messageId |-> "om_sent", chatId |-> chatId]
  ELSE NoCardSent

\* a sendWithRetry that retries whenever the first attempt throws
sendWithRetry_alwaysRetries(chatId, projectRoot, env) ==
  IF env.first /= "throw"
  THEN [ attempts |-> <<chatId>>, groups |-> 0, threw |-> "no",
         result |-> SendCardResult(env.first, chatId) ]
  ELSE IF env.group = "throw"
  THEN [ attempts |-> <<chatId>>, groups |-> 1, threw |-> "group",
         result |-> NoCardSent ]
  ELSE IF env.second = "throw"
  THEN [ attempts |-> <<chatId, env.group>>, groups |-> 1, threw |-> "second",
         result |-> NoCardSent ]
  ELSE [ attempts |-> <<chatId, env.group>>, groups |-> 1, threw |-> "no",
         result |-> SendCardResult(env.second, env.group) ]

\* sendWithRetry(msgOptions, projectRoot) with msgOptions.chatId = chatId; env
\* says what the first sendCardMessage, getOrCreateProjectGroup and the second
\* sendCardMessage do. attempts are the chatIds sendCardMessage was called
\* with, groups counts the calls of getOrCreateProjectGroup, threw names the
\* call whose error the caller receives
sendWithRetry(chatId, projectRoot, env) ==
  IF env.first /= "throw"
  THEN [ attempts |-> <<chatId>>, groups |-> 0, threw |-> "no",
         result |-> SendCardResult(env.first, chatId) ]
  ELSE IF ~(Truthy(chatId) /\ Truthy(projectRoot))
  THEN [ attempts |-> <<chatId>>, groups |-> 0, threw |-> "first",
         result |-> NoCardSent ]
  ELSE IF env.group = "throw"
  THEN [ attempts |-> <<chatId>>, groups |-> 1, threw |-> "group",
         result |-> NoCardSent ]
  ELSE IF env.second = "throw"
  THEN [ attempts |-> <<chatId, env.group>>, groups |-> 1, threw |-> "second",
         result |-> NoCardSent ]
  ELSE [ attempts |-> <<chatId, env.group>>, groups |-> 1, threw |-> "no",
         result |-> SendCardResult(env.second, env.group) ]

\* the calls: a chat target and a project root, present, empty or missing,
\* and what the three calls do
RetryInputs ==
  [ chatId      : {Undefined, "", "oc_old"},
    projectRoot : {Undefined, "", "/p/a"},
    env         : [ first  : SendOutcomes,
                    group  : {"oc_new", "throw"},
                    second : SendOutcomes ] ]

\* the arguments and the behaviour of the Feishu API have been chosen
RetryInit ==
  /\ Init!1 /\ Init!2 /\ Init!3 /\ Init!4 /\ Init!5 /\ Init!7 /\ Init!8 /\ Init!9
  /\ Init!10 /\ Init!11 /\ Init!12 /\ Init!13
  /\ last \in [op : {"input"}, input : RetryInputs]

\* sendWithRetry(msgOptions, projectRoot)
SendWithRetryCall ==
  /\ last.op = "input"
  /\ last' = [op |-> "sendWithRetry", input |-> last.input,
              out |-> sendWithRetry(last.input.chatId, last.input.projectRoot,
                                    last.input.env)]
  /\ UNCHANGED <<now, requests, nextId, rules, ruleIds, first, lost, hook,
                 alertScheduler, processedEvents, dispatched, sessionManager>>

RetrySpec == RetryInit /\ [][SendWithRetryCall]_vars

\* ---------------------------------------------- the hook script notify.js
\* src/hooks/notify.js holds two versions of the script: "phase3plus" (hook
\* types pre-tool and permission-request) and "phase3" (hook type pre-tool).
\* Each SAFE_COMMANDS pattern is ^(first), then, when second is not empty,
\* \s+(second), then \b when wb.
SAFE_COMMANDS_phase3plus ==
  <<
    [ first |-> {"ls", "cat", "head", "tail", "echo", "pwd", "which", "whoami",
          "date", "env", "printenv", "uname", "hostname"}, second |-> {}, wb |->
          TRUE ],
    [ first |-> {"wc", "sort", "uniq", "tr", "cut", "tee", "xargs", "basename",
          "dirname", "realpath", "readlink"}, second |-> {}, wb |-> TRUE ],
    [ first |-> {"file", "stat", "du", "df", "uptime", "free", "top -l", "ps"},
          second |-> {}, wb |-> TRUE ],
    [ first |-> {"grep", "rg", "find", "fd", "ag", "ack"}, second |-> {}, wb |->
          TRUE ],
    [ first |-> {"test"}, second |-> {}, wb |-> TRUE ],
    [ first |-> {"["}, second |-> {}, wb |-> FALSE ],
    [ first |-> {"mkdir", "touch", "cp", "mv", "chmod", "chown", "ln"}, second
          |-> {}, wb |-> TRUE ],
    [ first |-> {"git"}, second |-> {"status", "log", "diff", "branch", "show",
          "remote", "tag", "stash", "rev-parse", "config", "add", "commit",
          "checkout", "switch", "merge", "rebase", "reset", "cherry-pick",
          "bisect", "blame", "shortlog", "describe", "fetch", "rm", "restore",
          "clean"}, wb |-> TRUE ],
    [ first |-> {"node", "python", "python3", "ruby", "java", "go", "rustc",
          "cargo"}, second |-> {}, wb |-> TRUE ],
    [ first |-> {"npm", "pnpm", "yarn", "bun", "deno"}, second |-> {"install",
          "ci", "run", "exec", "test", "build", "start", "dev", "init",
          "create", "info", "list", "ls", "outdated", "audit", "why", "pack",
          "link", "unlink", "--version"}, wb |-> TRUE ],
    [ first |-> {"npx"}, second |-> {}, wb |-> TRUE ],
    [ first |-> {"pip", "pip3"}, second |-> {"install", "list", "show",
          "freeze", "check"}, wb |-> TRUE ],
    [ first |-> {"curl", "wget", "http", "fetch"}, second |-> {}, wb |-> TRUE ],
    [ first |-> {"sed", "awk", "perl", "jq", "yq", "column", "less", "more",
          "vim", "vi", "nano", "code", "open"}, second |-> {}, wb |-> TRUE ],
    [ first |-> {"tar", "zip", "unzip", "gzip", "gunzip", "bzip2", "xz"}, second
          |-> {}, wb |-> TRUE ],
    [ first |-> {"diff", "patch", "md5", "shasum", "sha256sum", "base64",
          "xxd"}, second |-> {}, wb |-> TRUE ],
    [ first |-> {"make", "cmake", "gcc", "g++", "clang", "ld"}, second |-> {},
          wb |-> TRUE ],
    [ first |-> {"tmux", "screen", "nohup", "time", "timeout", "watch", "wait",
          "sleep"}, second |-> {}, wb |-> TRUE ],
    [ first |-> {"tsc", "tsx", "ts-node", "esbuild", "vite", "webpack",
          "rollup", "vitest", "jest", "mocha", "pytest"}, second |-> {}, wb |->
          TRUE ],
    [ first |-> {"docker"}, second |-> {"ps", "images", "logs", "inspect",
          "exec", "build", "run", "compose", "version", "info"}, wb |-> TRUE ]
  >>

SAFE_COMMANDS_phase3 ==
  <<
    [ first |-> {"ls", "cat", "head", "tail", "echo", "pwd", "which", "whoami",
          "date", "env", "printenv", "uname", "hostname"}, second |-> {}, wb |->
          TRUE ],
    [ first |-> {"wc", "sort", "uniq", "tr", "cut", "tee", "xargs", "basename",
          "dirname", "realpath", "readlink"}, second |-> {}, wb |-> TRUE ],
    [ first |-> {"file", "stat", "du", "df", "uptime", "free", "top -l", "ps"},
          second |-> {}, wb |-> TRUE ],
    [ first |-> {"grep", "rg", "find", "fd", "ag", "ack"}, second |-> {}, wb |->
          TRUE ],
    [ first |-> {"test"}, second |-> {}, wb |-> TRUE ],
    [ first |-> {"["}, second |-> {}, wb |-> FALSE ],
    [ first |-> {"mkdir", "touch", "cp", "mv", "chmod", "chown", "ln"}, second
          |-> {}, wb |-> TRUE ],
    [ first |-> {"git"}, second |-> {"status", "log", "diff", "branch", "show",
          "remote", "tag", "stash", "rev-parse", "config", "add", "commit",
          "checkout", "switch", "merge", "rebase", "reset", "cherry-pick",
          "bisect", "blame", "shortlog", "describe", "fetch"}, wb |-> TRUE ],
    [ first |-> {"node", "python", "python3", "ruby", "java", "go", "rustc",
          "cargo"}, second |-> {}, wb |-> TRUE ],
    [ first |-> {"npm", "pnpm", "yarn", "bun", "deno"}, second |-> {"install",
          "ci", "run", "exec", "test", "build", "start", "dev", "init",
          "create", "info", "list", "ls", "outdated", "audit", "why", "pack",
          "link", "unlink", "--version"}, wb |-> TRUE ],
    [ first |-> {"npx"}, second |-> {}, wb |-> TRUE ],
    [ first |-> {"pip", "pip3"}, second |-> {"install", "list", "show",
          "freeze", "check"}, wb |-> TRUE ],
    [ first |-> {"curl", "wget", "http", "fetch"}, second |-> {}, wb |-> TRUE ],
    [ first |-> {"sed", "awk", "perl", "jq", "yq", "column", "less", "more",
          "vim", "vi", "nano", "code", "open"}, second |-> {}, wb |-> TRUE ],
    [ first |-> {"tar", "zip", "unzip", "gzip", "gunzip", "bzip2", "xz"}, second
          |-> {}, wb |-> TRUE ],
    [ first |-> {"diff", "patch", "md5", "shasum", "sha256sum", "base64",
          "xxd"}, second |-> {}, wb |-> TRUE ],
    [ first |-> {"make", "cmake", "gcc", "g++", "clang", "ld"}, second |-> {},
          wb |-> TRUE ],
    [ first |-> {"tmux", "screen", "nohup", "time", "timeout", "watch", "wait",
          "sleep"}, second |-> {}, wb |-> TRUE ],
    [ first |-> {"tsc", "tsx", "ts-node", "esbuild", "vite", "webpack",
          "rollup", "vitest", "jest", "mocha", "pytest"}, second |-> {}, wb |->
          TRUE ],
    [ first |-> {"docker"}, second |-> {"ps", "images", "logs", "inspect",
          "exec", "build", "run", "compose", "version", "info"}, wb |-> TRUE ]
  >>

WordChars ==
  {Char("abcdefghijklmnopqrstuvwxyzABCDEFGHIJKLMNOPQRSTUVWXYZ0123456789_", k) :
     k \in 1..63}

IsWordChar(s, p) == p >= 1 /\ p <= Len(s) /\ Char(s, p) \in WordChars

\* \b after the first p characters of s
WordBoundary(s, p) == IsWordChar(s, p) /= IsWordChar(s, p + 1)

\* pattern.test(s)
SafePatternTest(pat, s) ==
  IF pat.second = {}
  THEN \E a \in pat.first :
         startsWith(s, a) /\ (pat.wb => WordBoundary(s, Len(a)))
  ELSE \E a \in pat.first, b \in pat.second, n \in 1..Len(s) :
         /\ startsWith(s, a)
         /\ Len(a) + n + Len(b) <= Len(s)
         /\ \A i \in (Len(a) + 1)..(Len(a) + n) : IsWs(Char(s, i))
         /\ SubSeq(s, Len(a) + n + 1, Len(a) + n + Len(b)) = b
         /\ (pat.wb => WordBoundary(s, Len(a) + n + Len(b)))

SAFE_COMMANDS(script) ==
  IF script = "phase3plus" THEN SAFE_COMMANDS_phase3plus ELSE SAFE_COMMANDS_phase3

\* a whitelist test that does not trim the command
isSafeCommand_untrimmed(script, command) ==
  /\ Truthy(command)
  /\ \E k \in 1..Len(SAFE_COMMANDS(script)) :
       SafePatternTest(SAFE_COMMANDS(script)[k], command)

\* isSafeCommand(command)
isSafeCommand(script, command) ==
  /\ Truthy(command)
  /\ \E k \in 1..Len(SAFE_COMMANDS(script)) :
       SafePatternTest(SAFE_COMMANDS(script)[k], trim(command))

\* what the script is started with: the version of the script and the hook
\* type given on its command line
Scripts == {"phase3plus", "phase3"}

HookTypes(script) ==
  IF script = "phase3plus" THEN {"pre-tool", "permission-request"} ELSE {"pre-tool"}

\* the hook data Claude Code writes to the script's stdin
HookInputs ==
  { [session_id |-> "s1", tool_name |-> "Bash", command |-> "docker push img",
     json |-> "{}", cwd |-> "/p/a", options |-> <<>>,
     permission_suggestions |-> <<"toolAlwaysAllow">>],
    [session_id |-> "s1", tool_name |-> "Bash", command |-> "git status",
     json |-> "{}", cwd |-> "/p/a", options |-> <<>>,
     permission_suggestions |-> <<>>],
    [session_id |-> "s1", tool_name |-> "Bash", command |-> " git  rm -r x",
     json |-> "{}", cwd |-> "/p/a", options |-> <<>>,
     permission_suggestions |-> <<>>] }

\* the texts the script writes as reasons
WhitelistReason == "safe command whitelist"
ExpiredReason   == "auth request expired"
TimeoutReason   == "auth timeout"
DefaultReason   == "feishu remote auth"

\* const command = tool === 'Bash' ? payload.tool_input?.command : null
HookCommand(payload) ==
  IF payload.tool_name = "Bash" THEN payload.command ELSE Undefined

SuggestedOption(type) ==
  CASE type = "toolAlwaysAllow" -> "Yes, don't ask again"
    [] type = "pathAlwaysAllow" -> "Yes, don't ask again for this project"
    [] OTHER -> "Yes, always"

buildOptionsFromSuggestions(suggestions) ==
  <<"Yes">> \o [k \in 1..Len(suggestions) |-> SuggestedOption(suggestions[k])]
            \o <<"No">>

\* Phase 3: the PreToolUse output
outputDecision(allow, reason) ==
  [hookEventName |-> "PreToolUse",
   decision |-> IF allow THEN "allow" ELSE "deny",
   reason |-> IF Truthy(reason) THEN reason ELSE DefaultReason,
   updatedPermissions |-> <<>>]

\* Phase 3+: the PermissionRequest output
outputPermissionDecision(allow, reason, suggestions, optionText) ==
  [hookEventName |-> "PermissionRequest",
   decision |-> IF allow THEN "allow" ELSE "deny",
   reason |-> IF ~allow /\ Truthy(reason) THEN reason ELSE Undefined,
   updatedPermissions |->
     IF /\ allow
        /\ Truthy(optionText)
        /\ \/ includes(toLowerCase(optionText), "always")
           \/ includes(toLowerCase(optionText), "don't ask again")
        /\ Len(suggestions) > 0
     THEN suggestions ELSE <<>>]

\* a poll loop that takes every resolved response for an allow
PollResult_alwaysAllow(response) ==
  IF response.status = "resolved"
  THEN [done |-> TRUE, allow |-> TRUE, reason |-> DefaultReason,
        optionText |-> ""]
  ELSE IF response.status = "expired"
  THEN [done |-> TRUE, allow |-> FALSE, reason |-> ExpiredReason, optionText |-> ""]
  ELSE [done |-> FALSE, allow |-> FALSE, reason |-> Undefined, optionText |-> ""]

\* pollForDecision: what a parsed poll response makes the loop return;
\* done FALSE when the loop sleeps and polls again
PollResult(response) ==
  IF response.status = "resolved"
  THEN [done |-> TRUE, allow |-> response.decision = "allow",
        reason |-> IF Truthy(response.reason) THEN response.reason ELSE DefaultReason,
        optionText |-> IF Truthy(response.reason) THEN response.reason ELSE ""]
  ELSE IF response.status = "expired"
  THEN [done |-> TRUE, allow |-> FALSE, reason |-> ExpiredReason, optionText |-> ""]
  ELSE [done |-> FALSE, allow |-> FALSE, reason |-> Undefined, optionText |-> ""]

\* pollForDecision: what the loop returns once the deadline has passed
TimeoutResult ==
  [done |-> TRUE, allow |-> FALSE, reason |-> TimeoutReason, optionText |-> ""]

\* a poll loop without a deadline
LoopContinues_forever(startTime, t) == TRUE

\* while (Date.now() - startTime < timeoutMs)
LoopContinues(startTime, t) == t - startTime < POLL_TIMEOUT_MS

\* what the handler writes for the result of pollForDecision
EmitResult(h, result) ==
  IF h.script = "phase3plus"
  THEN outputPermissionDecision(result.allow, result.reason,
                                h.payload.permission_suggestions, result.optionText)
  ELSE outputDecision(result.allow, result.reason)

\* what the handler writes for an immediate decision of the server
EmitImmediate(h, response) ==
  IF h.script = "phase3plus"
  THEN outputPermissionDecision(response.decision = "allow", Undefined,
                                h.payload.permission_suggestions, Undefined)
  ELSE outputDecision(response.decision = "allow", response.reason)

\* the script ends after writing out
Finish(h, out, t) ==
  [h EXCEPT !.pc = "exited", !.out = out, !.exit = 0, !.endedAt = t]

\* catch blocks that report the error as a deny and exit with status 1
FailSilently_loud(h, failure, t) ==
  [h EXCEPT !.pc = "exited", !.exit = 1, !.endedAt = t, !.failure = failure,
            !.out = outputDecision(FALSE, failure)]

\* the catch blocks and the requestId check: process.exit(0), nothing written
FailSilently(h, failure, t) ==
  [h EXCEPT !.pc = "exited", !.exit = 0, !.endedAt = t, !.failure = failure]

\* main() up to the first request; fatal: an error thrown in main() itself
main(script, hookType, input, fatal, t) ==
  LET h0   == [IdleHook EXCEPT !.script = script, !.hookType = hookType,
                               !.payload = input]
      safe == /\ Truthy(HookCommand(input))
              /\ isSafeCommand(script, HookCommand(input))
  IN
  IF fatal THEN FailSilently(h0, "fatal", t)
  ELSE IF script = "phase3plus" /\ hookType = "pre-tool"
  THEN IF safe
       THEN Finish(h0, [hookEventName |-> "PreToolUse", decision |-> "allow",
                        reason |-> WhitelistReason, updatedPermissions |-> <<>>], t)
       ELSE Finish(h0, NoOutput, t)
  ELSE IF script = "phase3plus"
  THEN [h0 EXCEPT !.pc = "create",
                  !.payload.options =
                     buildOptionsFromSuggestions(input.permission_suggestions)]
  ELSE IF safe THEN Finish(h0, NoOutput, t)
  ELSE [h0 EXCEPT !.pc = "create"]

\* Claude Code starts the script; it is started only while the clock can
\* still reach the deadline of the poll loop
HookStartWith(inputs) ==
  /\ hook.pc = "idle"
  /\ now + POLL_TIMEOUT_MS <= MaxTime
  /\ \E script \in Scripts, input \in inputs, fatal \in BOOLEAN :
       \E hookType \in HookTypes(script) :
         hook' = main(script, hookType, input, fatal, now)
  /\ last' = [op |-> "hookStart"]
  /\ UNCHANGED <<now, requests, nextId, rules, ruleIds, first, lost, alertScheduler,
                 processedEvents, dispatched, sessionManager>>

HookStart == HookStartWith(HookInputs)
\* what can go wrong with the POST to /pre-tool before the server handles it:
\* the server is not reachable, something in front of the endpoint answers
\* with a non-2xx status, the reply is not JSON, the reply is JSON with neither
\* decision nor requestId
CreateFaults == {"none", "unreachable", "non2xx", "unparsable", "empty"}

\* no reply of the server has reached the script
NoResponse ==
  [http |-> 0, requestId |-> 0, decision |-> Undefined, reason |-> Undefined,
   ruleId |-> 0]

\* the handler after sendRequest: response is the server's reply when the
\* request got through
AfterCreate(h, fault, response, t) ==
  LET h1 == [h EXCEPT !.contacted = TRUE] IN
  IF fault /= "none" THEN FailSilently(h1, fault, t)
  ELSE IF response.http < 200 \/ response.http >= 300
  THEN FailSilently(h1, "non2xx", t)
  ELSE IF Truthy(response.decision)
  THEN Finish(h1, EmitImmediate(h1, response), t)
  ELSE IF response.requestId = 0
  THEN FailSilently(h1, "empty", t)
  ELSE [h1 EXCEPT !.pc = "poll", !.requestId = response.requestId, !.startTime = t]

\* the script posts its payload to /pre-tool and handles the reply (while the
\* clock can still reach the deadline of the poll loop that may follow)
HookCreate ==
  /\ hook.pc = "create"
  /\ now + POLL_TIMEOUT_MS <= MaxTime
  /\ \E fault \in CreateFaults, send \in SendOutcomes :
       LET out == PreToolEndpoint(requests, rules, nextId + 1, hook.payload, send, now) IN
       IF fault = "none"
       THEN /\ out.created => nextId < MaxReq
            /\ requests' = out.requests
            /\ nextId' = IF out.created THEN nextId + 1 ELSE nextId
            /\ hook' = AfterCreate(hook, fault, out.response, now)
            /\ last' = [op |-> "hookCreate", response |-> out.response]
       ELSE /\ send = "sent"
            /\ UNCHANGED <<requests, nextId>>
            /\ hook' = AfterCreate(hook, fault, out.response, now)
            /\ last' = [op |-> "hookCreate", response |-> NoResponse]
  /\ UNCHANGED <<now, rules, ruleIds, first, lost, alertScheduler,
                 processedEvents, dispatched, sessionManager>>

\* setTimeout(resolve, POLL_INTERVAL_MS)
sleep(h, t) == [h EXCEPT !.pc = "sleep", !.wakeAt = t + POLL_INTERVAL_MS]

\* one pass of the loop of pollForDecision whose poll got a response
AfterPoll(h, response, t) ==
  LET h1 == [h EXCEPT !.reply = response, !.okPolls = TRUE] IN
  IF PollResult(response).done
  THEN Finish(h1, EmitResult(h1, PollResult(response)), t)
  ELSE sleep(h1, t)

\* one pass of the loop of pollForDecision: the deadline test, then the poll,
\* which fails (getRequest rejects or the reply does not parse) or gets a response
HookPoll ==
  /\ hook.pc = "poll"
  /\ \/ /\ ~LoopContinues(hook.startTime, now)
        /\ hook' = Finish(hook, EmitResult(hook, TimeoutResult), now)
        /\ requests' = requests
     \/ /\ LoopContinues(hook.startTime, now)
        /\ hook' = sleep([hook EXCEPT !.failedPolls = TRUE], now)
        /\ requests' = requests
     \/ /\ LoopContinues(hook.startTime, now)
        /\ requests' = AuthPollEndpoint(requests, hook.requestId, now).requests
        /\ hook' = [AfterPoll(hook,
                       AuthPollEndpoint(requests, hook.requestId, now).response, now)
                    EXCEPT !.unknown = hook.requestId \notin DOMAIN requests]
  /\ last' = [op |-> "hookPoll"]
  /\ UNCHANGED <<now, nextId, rules, ruleIds, first, lost, alertScheduler,
                 processedEvents, dispatched, sessionManager>>

\* the timer of sleep() fires
HookWake ==
  /\ hook.pc = "sleep"
  /\ now >= hook.wakeAt
  /\ hook' = [hook EXCEPT !.pc = "poll"]
  /\ last' = [op |-> "hookWake"]
  /\ UNCHANGED <<now, requests, nextId, rules, ruleIds, first, lost, alertScheduler,
                 processedEvents, dispatched, sessionManager>>

\* the user clicks a button of the card the server sent for the script's request
Click ==
  /\ hook.requestId \in DOMAIN requests
  /\ Truthy(requests[hook.requestId].feishuMessageId)
  /\ \E k \in 1..Len(requests[hook.requestId].options) :
       CardActionWith([decode |-> "object", requestId |-> hook.requestId,
                       label |-> requests[hook.requestId].options[k],
                       hasMsg |-> TRUE], "http", TRUE)

\* the rule the server saved when "Yes, always" was clicked for the first
\* of HookInputs in an earlier run of the server
SavedRule ==
  [id |-> 1, tool |-> "Bash",
   commandPattern |-> createPatternFromCommand("docker push img"),
   projectPath |-> Undefined, scope |-> "always"]

\* the server starts with the rules its rules file holds
ClientInit ==
  /\ now = 0
  /\ requests = <<>>
  /\ nextId = 0
  /\ \/ rules = <<>> /\ ruleIds = 0
     \/ rules = <<SavedRule>> /\ ruleIds = 1
  /\ last = [op |-> "init"]
  /\ first = [i \in 1..(MaxReq + 1) |-> NoResolve]
  /\ lost = [i \in 1..(MaxReq + 1) |-> "no"]
  /\ hook = IdleHook
  /\ alertScheduler = NoAlerts
  /\ processedEvents = <<>>
  /\ dispatched = {}
  /\ sessionManager = NoSessions

\* the hook script against the server, the user clicking the card
ClientNext ==
  \/ Tick \/ Cleanup \/ Restart \/ AuthPoll \/ Click
  \/ HookStart \/ HookCreate \/ HookPoll \/ HookWake

ClientSpec == ClientInit /\ [][ClientNext]_vars

\* one run of the script, the user clicking the card, the server restarting
PollLoopNext ==
  \/ Tick \/ Restart \/ Click
  \/ HookStart \/ HookCreate \/ HookPoll \/ HookWake

\* the clock advances and the script's event loop runs its timers and its
\* pending continuations
FairPollLoopSpec ==
  /\ Init
  /\ [][PollLoopNext]_vars
  /\ WF_vars(Tick) /\ WF_vars(HookPoll) /\ WF_vars(HookWake)

\* -------------------------------------- the script run again and again
\* hook data of runs in several directories, and of a run without cwd
AutoAllowInputs ==
  { [session_id |-> "s1", tool_name |-> "Bash", command |-> "docker push img",
     json |-> "{}", cwd |-> "/p/a", options |-> <<>>,
     permission_suggestions |-> <<"toolAlwaysAllow">>],
    [session_id |-> "s2", tool_name |-> "Bash", command |-> "docker push other",
     json |-> "{}", cwd |-> "/p/b", options |-> <<>>,
     permission_suggestions |-> <<"toolAlwaysAllow">>],
    [session_id |-> "s3", tool_name |-> "Bash", command |-> "docker push other",
     json |-> "{}", cwd |-> Undefined, options |-> <<>>,
     permission_suggestions |-> <<>>] }

\* the rule the server saved when "Yes, don't ask again for this project"
\* was clicked for "docker push img" in /p/a in an earlier run of the server
SavedProjectRule ==
  [id |-> 1, tool |-> "Bash",
   commandPattern |-> createPatternFromCommand("docker push img"),
   projectPath |-> "/p/a", scope |-> "project"]

\* the server starts with the rules its rules file holds
AutoAllowInit ==
  /\ now = 0
  /\ requests = <<>>
  /\ nextId = 0
  /\ \/ rules = <<>> /\ ruleIds = 0
     \/ rules = <<SavedRule>> /\ ruleIds = 1
     \/ rules = <<SavedProjectRule>> /\ ruleIds = 1
  /\ last = [op |-> "init"]
  /\ first = [i \in 1..(MaxReq + 1) |-> NoResolve]
  /\ lost = [i \in 1..(MaxReq + 1) |-> "no"]
  /\ hook = IdleHook
  /\ alertScheduler = NoAlerts
  /\ processedEvents = <<>>
  /\ dispatched = {}
  /\ sessionManager = NoSessions

\* Claude Code starts the script for one of AutoAllowInputs
HookStartAnywhere == HookStartWith(AutoAllowInputs)

\* the script has exited; Claude Code will start it again for the next tool use
HookAgain ==
  /\ hook.pc = "exited"
  /\ hook' = IdleHook
  /\ last' = [op |-> "hookAgain"]
  /\ UNCHANGED <<now, requests, nextId, rules, ruleIds, first, lost, alertScheduler,
                 processedEvents, dispatched, sessionManager>>

\* runs of the script one after the other, the user clicking the cards
AutoAllowNext ==
  \/ Tick \/ Click
  \/ HookStartAnywhere \/ HookCreate \/ HookPoll \/ HookWake \/ HookAgain

AutoAllowSpec == AutoAllowInit /\ [][AutoAllowNext]_vars

\* ------------------------------------------- the alert scheduler on its own
MaxAlerts == 3        \* timers created in one behaviour

\* the messages alerts are scheduled under
AlertKeys == {MessageIdOf(1), MessageIdOf(2)}

\* alert configurations: the delay is in clock ticks
AlertConfigs ==
  [type : {"authorization"}, delayMinutes : {1, 2}, adminUserId : {"ou_admin"}]

\* what feishuClient.im.message.create does with the urgent message: answers
\* code 0, answers an error code, or throws
UrgentOutcomes == {"ok", "errorCode", "throw"}

\* a caller schedules an alert; working is what isWorkingHours() returns
ScheduleAlert ==
  \E messageId \in AlertKeys, config \in AlertConfigs, working \in BOOLEAN :
    /\ working => alertScheduler.nextTimer < MaxAlerts
    /\ alertScheduler' = AlertScheduler_scheduleAlert(alertScheduler, messageId,
                                                      config, working, now)
    /\ last' = [op |-> "scheduleAlert", messageId |-> messageId,
                working |-> working]
    /\ UNCHANGED <<now, requests, nextId, rules, ruleIds, first, lost, hook,
                   processedEvents, dispatched, sessionManager>>

\* a caller cancels the alert of a message
CancelAlert ==
  \E messageId \in AlertKeys :
    /\ alertScheduler' = AlertScheduler_cancelAlert(alertScheduler, messageId)
    /\ last' = [op |-> "cancelAlert", messageId |-> messageId]
    /\ UNCHANGED <<now, requests, nextId, rules, ruleIds, first, lost, hook,
                   processedEvents, dispatched, sessionManager>>

\* an armed timer whose delay has passed runs its callback
TimerFire ==
  \E timer \in alertScheduler.timers :
    /\ now >= timer.due
    /\ alertScheduler' = AlertScheduler_timerFires(alertScheduler, timer, now)
    /\ last' = [op |-> "timerFire", messageId |-> timer.messageId,
                timerId |-> timer.id]
    /\ UNCHANGED <<now, requests, nextId, rules, ruleIds, first, lost, hook,
                   processedEvents, dispatched, sessionManager>>

\* the create() call of an urgent message returns or throws
SendDone ==
  \E send \in alertScheduler.sending, outcome \in UrgentOutcomes :
    /\ alertScheduler' = AlertScheduler_sendEnds(alertScheduler, send, outcome)
    /\ last' = [op |-> "sendDone", messageId |-> send.messageId,
                timerId |-> send.timerId, outcome |-> outcome]
    /\ UNCHANGED <<now, requests, nextId, rules, ruleIds, first, lost, hook,
                   processedEvents, dispatched, sessionManager>>

SchedulerNext == Tick \/ ScheduleAlert \/ CancelAlert \/ TimerFire \/ SendDone

SchedulerSpec == Init /\ [][SchedulerNext]_vars

\* ------------------------- the server with phone alerts (FEISHU_VOICE_ENABLED)
\* the delay of an authorization alert, in clock ticks
VOICE_ALERT_AUTHORIZATION_DELAY_MINUTES == 2

\* the size the webhook keeps its set of event ids under
MAX_EVENT_CACHE == 1

\* header.event_id of a webhook delivery, Undefined when the body has none
EventIds == {Undefined, "ev_1", "ev_2"}

\* card.action.trigger events: the delivery's event id, how action.value
\* decodes, the requestId and label it carries, context.open_message_id; an
\* event whose value does not decode carries no requestId and no label
WebhookCardEvents ==
  [ eventId   : EventIds,
    decode    : {"object"},
    requestId : 0..(MaxReq + 1),
    label     : {"Yes", "No"},
    messageId : {Undefined} \cup {MessageIdOf(i) : i \in 1..MaxReq} ]
  \cup
  [ eventId   : EventIds,
    decode    : {"badjson", "nullish"},
    requestId : {0},
    label     : {Undefined},
    messageId : {Undefined} \cup {MessageIdOf(i) : i \in 1..MaxReq} ]

\* a webhook that never finds an event id in its set
SeenEvent_never(events, eventId) == FALSE

\* processedEvents.has(eventId)
SeenEvent(events, eventId) == \E i \in 1..Len(events) : events[i] = eventId

\* processedEvents.add(eventId), and the oldest id dropped above the cap
RememberEvent(events, eventId) ==
  LET added == Append(events, eventId) IN
  IF Len(added) > MAX_EVENT_CACHE THEN Tail(added) ELSE added

\* the webhook router's handleCardAction(event): the scheduler and the stores
\* after it, with the branch taken
RouterHandleCardAction(sched, reqs, rs, rid, ev, upd, t) ==
  LET quiet     == [requests |-> reqs, rules |-> rs, ack |-> NoAck,
                    threw |-> FALSE, resolved |-> FALSE, added |-> FALSE]
      cancelled == IF Truthy(ev.messageId)
                   THEN AlertScheduler_cancelAlert(sched, ev.messageId)
                   ELSE sched
  IN
  IF ev.decode = "badjson"
  THEN quiet @@ [branch |-> "invalidValue", alertScheduler |-> sched]
  ELSE IF ev.decode = "nullish"
  THEN [quiet EXCEPT !.threw = TRUE]
       @@ [branch |-> "typeError", alertScheduler |-> cancelled]
  ELSE IF ev.requestId = 0
  THEN quiet @@ [branch |-> "noRequestId", alertScheduler |-> cancelled]
  ELSE HandleCardAction(reqs, rs, rid,
                        [decode |-> ev.decode, requestId |-> ev.requestId,
                         label |-> ev.label, hasMsg |-> Truthy(ev.messageId)],
                        "http", upd, t)
       @@ [alertScheduler |-> cancelled]

\* POST /pre-tool with FEISHU_VOICE_ENABLED = 'true': the endpoint, and the
\* alert scheduled under the card's message id when the card went to the
\* project group; working is what isWorkingHours() returns
PreToolVoice ==
  \E body \in Bodies, send \in SendOutcomes, working \in BOOLEAN :
    LET out == PreToolEndpoint(requests, rules, nextId + 1, body, send, now)
        scheduled == out.created /\ send = "sent" /\ Truthy(body.cwd)
    IN
    /\ out.created => nextId < MaxReq
    /\ requests' = out.requests
    /\ nextId' = IF out.created THEN nextId + 1 ELSE nextId
    /\ alertScheduler' =
         IF scheduled
         THEN AlertScheduler_scheduleAlert(alertScheduler, MessageIdOf(nextId + 1),
                [type |-> "authorization",
                 delayMinutes |-> VOICE_ALERT_AUTHORIZATION_DELAY_MINUTES,
                 adminUserId |-> Undefined],
                working, now)
         ELSE alertScheduler
    /\ last' = [op |-> "preTool", response |-> out.response,
                scheduled |-> scheduled /\ working]
    /\ UNCHANGED <<now, rules, ruleIds, first, lost, hook, processedEvents,
                   dispatched, sessionManager>>

\* Feishu posts a card.action.trigger event to /webhook, with the card
\* update API working
WebhookDeliver(ev) ==
  IF Truthy(ev.eventId) /\ SeenEvent(processedEvents, ev.eventId)
  THEN /\ last' = [op |-> "cardAction", id |-> ev.requestId, label |-> ev.label,
                   branch |-> "duplicateEvent", ack |-> NoAck, threw |-> FALSE,
                   messageId |-> ev.messageId, eventId |-> ev.eventId]
       /\ UNCHANGED <<now, requests, nextId, rules, ruleIds, first, lost, hook,
                      alertScheduler, processedEvents, dispatched,
                      sessionManager>>
  ELSE LET out == RouterHandleCardAction(alertScheduler, requests, rules,
                                         ruleIds + 1, ev, TRUE, now) IN
       /\ processedEvents' = IF Truthy(ev.eventId)
                             THEN RememberEvent(processedEvents, ev.eventId)
                             ELSE processedEvents
       /\ alertScheduler' = out.alertScheduler
       /\ requests' = out.requests
       /\ rules' = out.rules
       /\ ruleIds' = IF out.added THEN ruleIds + 1 ELSE ruleIds
       /\ first' = IF out.branch = "resolve"
                   THEN NoteResolve(first, ev.requestId,
                                    DecisionOf(ev.label), OrEmpty(ev.label))
                   ELSE first
       /\ last' = [op |-> "cardAction", id |-> ev.requestId, label |-> ev.label,
                   branch |-> out.branch, ack |-> out.ack, threw |-> out.threw,
                   messageId |-> ev.messageId, eventId |-> ev.eventId]
       /\ dispatched' = IF Truthy(ev.eventId)
                        THEN dispatched \cup {ev.eventId}
                        ELSE dispatched
       /\ UNCHANGED <<now, nextId, lost, hook, sessionManager>>

\* POST /webhook with any card action event
WebhookCardAction == \E ev \in WebhookCardEvents : WebhookDeliver(ev)

\* the same deliveries from a sender that uses one event id only
WebhookCardActionOneId ==
  \E ev \in {e \in WebhookCardEvents : e.eventId /= "ev_2"} : WebhookDeliver(ev)

Phase4Next ==
  Tick \/ PreToolVoice \/ WebhookCardActionOneId \/ TimerFire \/ SendDone

Phase4Spec == Init /\ [][Phase4Next]_vars

\* the webhook alone, with every event id
WebhookNext == PreToolVoice \/ WebhookCardAction

WebhookSpec == Init /\ [][WebhookNext]_vars

\* ------------------------------------------- the session manager on its own
\* a message for an existing session reaches continueSession
ContinueSession ==
  \E sessionId \in Sessions :
    /\ sessionManager.arrived < MaxMsgs
    /\ LET prompt == sessionManager.arrived + 1 IN
       /\ sessionManager' =
            continueSession([sessionManager EXCEPT !.arrived = prompt],
                            sessionId, prompt)
       /\ last' = [op |-> "continueSession", sessionId |-> sessionId,
                   prompt |-> prompt,
                   queued |-> sessionManager.runningProcesses[sessionId]
                                /= NoChild]
    /\ UNCHANGED <<now, requests, nextId, rules, ruleIds, first, lost, hook,
                   alertScheduler, processedEvents, dispatched>>

\* sendCardMessage returns to a waiting call, which goes on to spawn
SpawnClaudeProcess ==
  \E call \in sessionManager.awaiting :
    /\ sessionManager' = spawnClaudeProcess(sessionManager, call)
    /\ last' = [op |-> "spawnClaudeProcess", sessionId |-> call.sessionId,
                prompt |-> call.prompt,
                refused |-> getRunningCount(sessionManager) >= MAX_CONCURRENT]
    /\ UNCHANGED <<now, requests, nextId, rules, ruleIds, first, lost, hook,
                   alertScheduler, processedEvents, dispatched>>

\* the process just spawned fails to start: 'error' is emitted on the next
\* tick, before any other event is handled, and 'exit' is not emitted
ChildError ==
  \E child \in sessionManager.children :
    /\ last.op = "spawnClaudeProcess" /\ ~last.refused
    /\ child = [sessionId |-> last.sessionId, prompt |-> last.prompt]
    /\ sessionManager' = childOnError(sessionManager, child)
    /\ last' = [op |-> "childError", sessionId |-> child.sessionId,
                prompt |-> child.prompt]
    /\ UNCHANGED <<now, requests, nextId, rules, ruleIds, first, lost, hook,
                   alertScheduler, processedEvents, dispatched>>

\* a process ends: 'exit' is emitted
ChildExit ==
  \E child \in sessionManager.children :
    /\ sessionManager' = childOnExit(sessionManager, child)
    /\ last' = [op |-> "childExit", sessionId |-> child.sessionId,
                prompt |-> child.prompt]
    /\ UNCHANGED <<now, requests, nextId, rules, ruleIds, first, lost, hook,
                   alertScheduler, processedEvents, dispatched>>

SessionNext == ContinueSession \/ SpawnClaudeProcess \/ ChildError \/ ChildExit

SessionSpec == Init /\ [][SessionNext]_vars

\* ------------------------------------------------------------ properties
\* C1: of all the resolve calls and card clicks on a request, only the first
\* one made while the request was pending takes effect: the stored decision
\* and decisionReason are its decision and reason, and a resolve call or a
\* click on a request that is no longer pending leaves the record as it was.
C1_FirstResolveStays ==
  \A id \in DOMAIN requests :
    first[id] /= NoResolve =>
      /\ requests[id].status = "resolved"
      /\ requests[id].decision = first[id].decision
      /\ requests[id].decisionReason = first[id].reason

C1_LaterCallsChangeNothing ==
  \A id \in DOMAIN requests :
    ( /\ last'.op \in {"resolve", "cardAction"}
      /\ last'.id = id
      /\ requests[id].status /= "pending" )
    => /\ id \in DOMAIN requests'
       /\ requests'[id] = requests[id]

C1_OnlyFirstResolveTakesEffect ==
  [](C1_FirstResolveStays) /\ [][C1_LaterCallsChangeNothing]_vars

\* a resolve call made on a request resolved at an earlier time
C1_Witness ==
  /\ last.op = "resolve"
  /\ last.id \in DOMAIN requests
  /\ requests[last.id].status = "resolved"
  /\ requests[last.id].resolvedAt < now

\* C2: the status of a request changes only from pending to resolved or from
\* pending to expired; a resolved or expired request keeps its status.
C2_StatusStep ==
  \A id \in DOMAIN requests \cap DOMAIN requests' :
    requests'[id].status /= requests[id].status =>
      /\ requests[id].status = "pending"
      /\ requests'[id].status \in {"resolved", "expired"}

C2_StatusOnlyLeavesPending == [][C2_StatusStep]_vars

\* a resolve call or a click on an expired request, which stays expired
C2_Witness ==
  /\ last.op \in {"resolve", "cardAction"}
  /\ last.id \in DOMAIN requests
  /\ requests[last.id].status = "expired"

\* C3: a request has a decision and a decisionReason exactly when its status
\* is resolved; a pending or expired request has neither.
C3_DecisionIffResolved ==
  \A id \in DOMAIN requests :
    IF requests[id].status = "resolved"
    THEN requests[id].decision /= Undefined /\ requests[id].decisionReason /= Undefined
    ELSE requests[id].decision = Undefined /\ requests[id].decisionReason = Undefined

\* a request resolved by a click that carried no label: its reason is ""
C3_Witness ==
  \E id \in DOMAIN requests :
    /\ requests[id].status = "resolved"
    /\ requests[id].decisionReason = ""

\* C4 as claimed: get(id) called when more than the TTL has passed since the
\* request was created returns status expired.
C4_Claimed ==
  ( /\ last.op = "get"
    /\ last.id \in DOMAIN requests
    /\ now - requests[last.id].createdAt > AUTH_TTL_MS )
  => requests[last.id].status = "expired"

\* C4 as amended: get(id) on a stored request, called when more than the TTL
\* has passed since it was created, returns status expired unless the request
\* has been resolved, and then it returns status resolved.
C4_ExpiredUnlessResolved ==
  ( /\ last.op = "get"
    /\ last.id \in DOMAIN requests
    /\ now - requests[last.id].createdAt > AUTH_TTL_MS )
  => requests[last.id].status =
       IF first[last.id] /= NoResolve THEN "resolved" ELSE "expired"

\* get returns expired for a request older than the TTL by more than one tick
C4_Witness ==
  /\ last.op = "get"
  /\ last.id \in DOMAIN requests
  /\ now - requests[last.id].createdAt > AUTH_TTL_MS + 1
  /\ requests[last.id].status = "expired"
\* the poll endpoint's answer for a stored request whose status is expired
AnswerForExpired ==
  AuthPollEndpoint(
    1 :> [NewRequest(1, [sessionId |-> "s1", tool |-> "Bash", command |-> "x",
                         options |-> <<"Yes", "No">>, cwd |-> Undefined], 0)
          EXCEPT !.status = "expired"],
    1, 0).response

\* C5: for a requestId the store does not hold (never created, lost on a
\* restart, removed by cleanup) the poll endpoint answers 200 with status
\* expired, the same answer as for an expired request, and a script that polled
\* such a requestId has ended with a deny.
C5_UnknownIdPollsAsExpired ==
  /\ ( /\ last.op = "authPoll"
       /\ last.id /= 0
       /\ last.id \notin DOMAIN requests )
     => /\ last.response.http = 200
        /\ last.response.status = "expired"
        /\ last.response = AnswerForExpired
  /\ hook.unknown
     => /\ hook.pc = "exited"
        /\ hook.reply = AnswerForExpired
        /\ hook.out.decision = "deny"
        /\ hook.exit = 0

\* the script polled for a request the store lost on a restart
C5_Witness ==
  /\ hook.unknown
  /\ lost[hook.requestId] = "restart"
  /\ hook.out.decision = "deny"

\* C6: a script that went through the poll loop has written: the decision of
\* the poll response, if a poll returned resolved; deny with the expired
\* reason, if a poll returned expired; deny with the timeout reason otherwise,
\* and then the deadline had passed. Failed polls lead to nothing else.
C6_EmittedDecisionFollowsPoll ==
  (hook.pc = "exited" /\ hook.startTime /= NoTime) =>
    IF hook.reply.status = "resolved"
    THEN hook.out.decision = hook.reply.decision
    ELSE IF hook.reply.status = "expired"
    THEN hook.out.decision = "deny" /\ hook.out.reason = ExpiredReason
    ELSE /\ hook.out.decision = "deny"
         /\ hook.out.reason = TimeoutReason
         /\ hook.endedAt - hook.startTime >= POLL_TIMEOUT_MS

\* a poll failed, the next one returned resolved with deny
C6_Witness ==
  /\ hook.pc = "exited"
  /\ hook.failedPolls
  /\ hook.reply.status = "resolved"
  /\ hook.reply.decision = "deny"
  /\ hook.out.decision = "deny"

\* C7: every run of the poll loop ends; while it runs, no poll has returned
\* resolved or expired.
C7_LoopRunsOnlyWhilePending ==
  hook.pc \in {"poll", "sleep"} => hook.reply.status \notin {"resolved", "expired"}

C7_PollLoopTerminates ==
  /\ [](C7_LoopRunsOnlyWhilePending)
  /\ (hook.pc \in {"poll", "sleep"}) ~> (hook.pc = "exited")

\* the loop ended on the deadline after polls that all failed
C7_Witness ==
  /\ hook.pc = "exited"
  /\ hook.failedPolls
  /\ ~hook.okPolls
  /\ hook.out.reason = TimeoutReason

\* C8: when the creation of the request fails (server unreachable, non-2xx
\* reply, unparsable reply, reply with neither decision nor requestId) or
\* main() throws, the script has written nothing and exits with status 0.
C8_FailureIsSilent ==
  hook.failure /= "none" =>
    /\ hook.pc = "exited"
    /\ hook.out = NoOutput
    /\ hook.exit = 0

\* the server stored the request, then answered 500 as the card could not be sent
C8_Witness ==
  /\ hook.failure = "non2xx"
  /\ nextId = 1
  /\ hook.pc = "exited"

\* the script was started for a Bash command of the safe-command list
SafeCommandRun ==
  /\ hook.pc /= "idle"
  /\ hook.failure = "none"
  /\ hook.payload.tool_name = "Bash"
  /\ hook.payload.command \in
       (IF hook.script = "phase3plus" THEN {"git status", " git  rm -r x"}
                                      ELSE {"git status"})

C10_Step ==
  last'.op = "cardAction" =>
    /\ ( \/ last'.id = 0
         \/ last'.id \notin DOMAIN requests
         \/ requests[last'.id].status \in {"resolved", "expired"} )
       => requests' = requests /\ rules' = rules
    /\ ( /\ last'.id \in DOMAIN requests
         /\ IsExpiredNow(requests[last'.id], now) )
       => /\ requests' = AuthStore_get(requests, last'.id, now)
          /\ rules' = rules

C10_RejectedClickChangesNothing == [][C10_Step]_vars

\* a click on an expired request, and no rule has been added
C10_Witness ==
  /\ last.op = "cardAction"
  /\ last.branch = "duplicate"
  /\ last.id \in DOMAIN requests
  /\ requests[last.id].status = "expired"
  /\ rules = <<>>

\* ---------------------------------------------------------------- C11
\* C11: when a click finds its request already resolved, the acknowledgment
\* shows the decision stored by the resolution and the label stored by the
\* resolution (as getChineseAuthOption displays it), not the label of the
\* new click
C11_DuplicateAckShowsStoredLabel ==
  ( /\ last.op = "cardAction"
    /\ last.branch = "duplicate"
    /\ last.ack.kind /= "none" )
  => /\ last.ack.decision = requests[last.id].decision
     /\ last.ack.option = getChineseAuthOption(requests[last.id].decisionReason)

\* ---------------------------------------------------------------- C12
\* the acknowledgment each branch of the handler is to produce
ExpectedAckKind(branch, req) ==
  CASE branch \in {"invalidValue", "typeError", "missingRequestId"} -> "error"
    [] branch = "notFound" -> "expired"
    [] branch = "duplicate" -> IF req.status = "expired" THEN "expired" ELSE "resolved"
    [] branch = "resolve" -> "resolved"

\* C12: every card action is acknowledged to the user, by a returned card or
\* by a pushed card update, and the acknowledgment is the one of its branch:
\* a diagnostic for a decode failure or a missing requestId, the
\* expired/restart one for an unknown requestId, the expired one for a click
\* on an expired request, the stored decision for a duplicate click, the
\* resolution for a real resolution
C12_EveryClickIsAcknowledged ==
  last.op = "cardAction"
  => /\ last.ack.returned \/ last.ack.pushed = "ok"
     /\ last.ack.kind =
          ExpectedAckKind(last.branch,
                          IF last.id \in DOMAIN requests THEN requests[last.id]
                          ELSE NotFound)

\* ---------------------------------------------------------------- C13
\* the step is a click carrying a chosen label on request id, which is
\* pending and within its TTL
ClickOnPending(id) ==
  /\ last'.op = "cardAction"
  /\ last'.id = id
  /\ last'.label /= Undefined
  /\ id \in DOMAIN requests
  /\ requests[id].status = "pending"
  /\ now - requests[id].createdAt <= AUTH_TTL_MS

C13_Step ==
  \A id \in 1..(MaxReq + 1) :
    ClickOnPending(id) =>
      /\ requests'[id].status = "resolved"
      /\ requests'[id].decision =
           IF \/ includes(toLowerCase(last'.label), "no")
              \/ includes(toLowerCase(last'.label), "deny")
           THEN "deny" ELSE "allow"
      /\ requests'[id].decisionReason = last'.label

\* C13: a click on a pending request resolves it deny if the chosen label,
\* lower-cased, contains "no" or "deny", and allow otherwise, and stores the
\* chosen label as the decisionReason
C13_LabelDecides == [][C13_Step]_vars

\* the label "No" has resolved a request deny, and "No" is the stored reason
C13_Witness ==
  /\ last.op = "cardAction"
  /\ last.branch = "resolve"
  /\ last.label = "No"
  /\ requests[last.id].decision = "deny"
  /\ requests[last.id].decisionReason = "No"

\* ---------------------------------------------------------------- C14
\* the positions of s where a whitespace-separated token starts
TokenStarts(s) ==
  {i \in 1..Len(s) : ~IsWs(Char(s, i)) /\ (i = 1 \/ IsWs(Char(s, i - 1)))}

\* the token of s that starts at position i
TokenAt(s, i) ==
  LET ends == {j \in i..Len(s) : \A k \in i..j : ~IsWs(Char(s, k))}
      j    == CHOOSE e \in ends : \A f \in ends : f <= e
  IN SubSeq(s, i, j)

\* the first two tokens of the command joined by one space, then "**"; the
\* single token, then "**", when there is only one
FirstTwoTokensPattern(command) ==
  LET starts == TokenStarts(command)
      one    == CHOOSE i \in starts : \A k \in starts : i <= k
      others == starts \ {one}
      two    == CHOOSE i \in others : \A k \in others : i <= k
  IN IF starts = {} THEN "**"
     ELSE IF others = {} THEN TokenAt(command, one) \o "**"
     ELSE TokenAt(command, one) \o " " \o TokenAt(command, two) \o "**"

C14_Step ==
  \A id \in 1..(MaxReq + 1) :
    ( /\ ClickOnPending(id)
      /\ requests[id].tool /= Undefined
      /\ requests[id].command /= Undefined
      /\ requests'[id].decision = "allow"
      /\ \/ includes(toLowerCase(last'.label), "always")
         \/ includes(toLowerCase(last'.label), "don't ask again") )
    => /\ Len(rules') = Len(rules) + 1
       /\ SubSeq(rules', 1, Len(rules)) = rules
       /\ LET rule == rules'[Len(rules')]
              req  == requests[id]
          IN /\ rule.tool = req.tool
             /\ rule.commandPattern = FirstTwoTokensPattern(req.command)
             /\ IF includes(toLowerCase(last'.label), "project")
                THEN rule.scope = "project" /\ rule.projectPath = req.cwd
                ELSE rule.scope = "always" /\ rule.projectPath = Undefined

\* C14: resolving a pending request that has a tool and a command allow, by
\* a label containing "always" or "don't ask again", appends exactly one
\* rule: its tool is the request's, its commandPattern is the command's
\* first two whitespace-separated tokens joined by one space and followed by
\* "**" (the single token and "**" when there is one), its scope is project
\* with the request's cwd as projectPath when the label contains "project",
\* and always without projectPath otherwise
C14_DerivedRule == [][C14_Step]_vars

\* a project label has derived the rule of "docker push img" in /p/a
C14_Witness ==
  /\ last.op = "cardAction"
  /\ last.branch = "resolve"
  /\ last.label = "Yes, don't ask again for this project"
  /\ Len(rules) = 1
  /\ rules[1].commandPattern = "docker push**"
  /\ rules[1].scope = "project"
  /\ rules[1].projectPath = "/p/a"

\* ---------------------------------------------------------------- C15
C15_Step ==
  rules' /= rules =>
    /\ last'.op = "cardAction"
    /\ last'.id \in DOMAIN requests
    /\ requests[last'.id].status = "pending"
    /\ requests'[last'.id].status = "resolved"
    /\ requests'[last'.id].decision = "allow"
    /\ last'.label /= Undefined
    /\ \/ includes(toLowerCase(last'.label), "always")
       \/ includes(toLowerCase(last'.label), "don't ask again")
    /\ Len(rules') = Len(rules) + 1
    /\ SubSeq(rules', 1, Len(rules)) = rules

C15_OnlyResolutionAddsRule == [][C15_Step]_vars

\* no more rules have been added than requests created
C15_AtMostOnePerRequest == ruleIds <= nextId

\* C15: the rule list changes only in a step that moves a request from
\* pending to resolved with decision allow under an always / don't-ask-again
\* label, and then by one appended rule; a deny, a duplicate click, a click
\* on an expired or unknown request and a malformed event add none, so that
\* each request gives rise to at most one rule
C15_RuleOnlyOnAllowAlways == C15_OnlyResolutionAddsRule /\ []C15_AtMostOnePerRequest

\* the one request has been resolved by "Yes, always", its rule is in the
\* store, and a second click on it has added nothing
C15_Witness ==
  /\ last.op = "cardAction"
  /\ last.branch = "duplicate"
  /\ last.label = "Yes, always"
  /\ requests[last.id].decisionReason = "Yes, always"
  /\ Len(rules) = 1

\* ---------------------------------------------------------------- C18
\* C18: in every reachable state, every rule with scope project carries a
\* projectPath
C18_ProjectRuleHasPath ==
  \A i \in 1..Len(rules) :
    rules[i].scope = "project" => rules[i].projectPath /= Undefined

\* ---------------------------------------------------------------- C17
\* path is dir itself or lies under dir
EqualOrNestedUnder(path, dir) ==
  path = dir \/ startsWith(path, dir \o "/")

\* C17: match() returns a rule with scope project only for a request whose
\* cwd is defined and is equal to or nested under the rule's projectPath
C17_ProjectRuleStaysInProject ==
  ( /\ last.op = "match"
    /\ last.returned /= NoRule
    /\ last.returned.scope = "project" )
  => /\ last.projectPath /= Undefined
     /\ EqualOrNestedUnder(last.projectPath, last.returned.projectPath)

\* ---------------------------------------------------------------- C19
\* the rules of the store that satisfy the conditions of match()
Satisfying(tool, command, projectPath) ==
  {i \in 1..Len(rules) : RuleMatches(rules[i], tool, command, projectPath)}

\* C19: after any sequence of addRule and removeRule calls, match() returns
\* the earliest-added rule (the one with the least id drawn) among the rules
\* that satisfy the tool, scope and pattern conditions, and null only when no
\* rule satisfies them
C19_MatchReturnsEarliest ==
  last.op = "match" =>
    LET sat == Satisfying(last.tool, last.command, last.projectPath) IN
    IF sat = {} THEN last.returned = NoRule
    ELSE /\ \E i \in sat : last.returned = rules[i]
         /\ \A i \in sat : last.returned.id <= rules[i].id

\* the rule added first has been removed, two of the rules left satisfy the
\* conditions, and match() has returned the one added earlier
C19_Witness ==
  /\ last.op = "match"
  /\ ruleIds = MaxRules
  /\ Len(rules) = 2
  /\ Cardinality(Satisfying(last.tool, last.command, last.projectPath)) = 2
  /\ last.returned.id = 2

\* ---------------------------------------------------------------- C20
\* a glob in which * and ** both match any run of characters, ? matches one
\* character, any other character matches itself, against the whole text
RECURSIVE GlobAsClaimed(_, _)
GlobAsClaimed(pattern, text) ==
  IF pattern = "" THEN text = ""
  ELSE IF Char(pattern, 1) = "*"
  THEN \E n \in 0..Len(text) : GlobAsClaimed(Rest(pattern, 2), Rest(text, n + 1))
  ELSE /\ text /= ""
       /\ Char(pattern, 1) = "?" \/ Char(pattern, 1) = Char(text, 1)
       /\ GlobAsClaimed(Rest(pattern, 2), Rest(text, 2))

RECURSIVE GlobAsBuilt(_, _)
GlobAsBuilt(pattern, text) ==
  IF pattern = "" THEN text = ""
  ELSE IF startsWith(pattern, "**")
  THEN \E n \in 0..Len(text) :
         /\ \A i \in 1..n : Char(text, i) \notin {"\n", "\r"}
         /\ GlobAsBuilt(Rest(pattern, 3), Rest(text, n + 1))
  ELSE IF Char(pattern, 1) = "*"
  THEN \E n \in 0..Len(text) :
         /\ \A i \in 1..n : Char(text, i) /= "/"
         /\ GlobAsBuilt(Rest(pattern, 2), Rest(text, n + 1))
  ELSE /\ text /= ""
       /\ IF Char(pattern, 1) = "?" THEN Char(text, 1) \notin {"\n", "\r"}
          ELSE Char(pattern, 1) = Char(text, 1)
       /\ GlobAsBuilt(Rest(pattern, 2), Rest(text, 2))

MatchedByAlwaysRule(i) ==
  /\ hook.pc = "create"
  /\ last'.op = "hookCreate"
  /\ last'.response /= NoResponse
  /\ rules[i].scope = "always"
  /\ rules[i].tool = hook.payload.tool_name
  /\ \/ ~Truthy(rules[i].commandPattern)
     \/ /\ Truthy(ExtractCommand(hook.payload))
        /\ matchGlob(rules[i].commandPattern, ExtractCommand(hook.payload))

\* the request is answered at once with allow, no record is created, and the
\* script writes allow and exits without a poll
AnsweredWithoutRecord ==
  /\ last'.response.decision = "allow"
  /\ requests' = requests
  /\ nextId' = nextId
  /\ hook'.pc = "exited"
  /\ hook'.out.decision = "allow"
  /\ ~hook'.okPolls /\ ~hook'.failedPolls

\* C16 as claimed: the answer carries the id of that always-scoped rule
C16_Claimed ==
  [][\A i \in 1..Len(rules) :
       MatchedByAlwaysRule(i) =>
         AnsweredWithoutRecord /\ last'.response.ruleId = rules[i].id]_vars

\* the first rule of the store that takes the script's request
EarliestMatching(i) ==
  /\ RuleMatches(rules[i], hook.payload.tool_name,
                 ExtractCommand(hook.payload), hook.payload.cwd)
  /\ \A k \in 1..(i - 1) :
       ~RuleMatches(rules[k], hook.payload.tool_name,
                    ExtractCommand(hook.payload), hook.payload.cwd)

\* C16: after an always-scoped rule has been derived, every later creation
\* request with the same tool whose command matches the rule's pattern,
\* under any cwd, is answered immediately with decision allow and the id of
\* the earliest-added rule that matches the request (the rule's own id
\* unless an earlier rule matches too), creates no request record, and makes
\* the poll client emit allow without polling
C16_AutoAllowed ==
  [][\A i \in 1..Len(rules) :
       MatchedByAlwaysRule(i) =>
         /\ AnsweredWithoutRecord
         /\ \E j \in 1..i :
              EarliestMatching(j) /\ last'.response.ruleId = rules[j].id]_vars

\* a request was created and allowed for good, and a later run of the
\* script, started without cwd, has been answered with the derived rule's id
\* and has written allow
C16_Witness ==
  /\ last.op = "hookCreate"
  /\ nextId = 1
  /\ hook.payload.cwd = Undefined
  /\ hook.pc = "exited"
  /\ hook.out.decision = "allow"
  /\ \E i \in 1..Len(rules) :
       /\ rules[i].scope = "always"
       /\ rules[i].id = last.response.ruleId

\* ---------------------------------------------------------------- C21
\* s holds no glob wildcard
IsLiteral(s) == \A i \in 1..Len(s) : Char(s, i) \notin {"*", "?"}

\* the pattern without its last two characters
PrefixOf(pattern) == SubSeq(pattern, 1, Len(pattern) - 2)

\* C21: for a pattern made of a literal prefix p followed by "**", matchGlob
\* succeeds exactly for the commands that start with p
C21_PrefixPattern ==
  ( /\ last.op = "matchGlob"
    /\ Len(last.pattern) >= 2
    /\ Rest(last.pattern, Len(last.pattern) - 1) = "**"
    /\ IsLiteral(PrefixOf(last.pattern)) )
  => (last.returned <=> startsWith(last.text, PrefixOf(last.pattern)))

\* C24: a scheduleAlert made while isWorkingHours() is false creates no timer
\* and no pending entry: getPendingCount() is what it was, the armed timers
\* and the pending entries are what they were, and nothing is sent for it
C24_Step ==
  (last'.op = "scheduleAlert" /\ ~last'.working)
  => /\ AlertScheduler_getPendingCount(alertScheduler')
          = AlertScheduler_getPendingCount(alertScheduler)
     /\ alertScheduler'.pendingAlerts = alertScheduler.pendingAlerts
     /\ alertScheduler'.timers = alertScheduler.timers
     /\ alertScheduler'.nextTimer = alertScheduler.nextTimer
     /\ alertScheduler'.sent = alertScheduler.sent
     /\ alertScheduler'.sending = alertScheduler.sending

C24_OutsideWorkingHoursNothingScheduled == [][C24_Step]_vars

\* a call outside working hours under a key that has an armed alert
C24_Witness ==
  /\ last.op = "scheduleAlert"
  /\ ~last.working
  /\ \E t \in alertScheduler.timers : t.messageId = last.messageId
  /\ PendingAlertsGet(alertScheduler, last.messageId) /= {}

\* the timers armed under a key
ArmedUnder(messageId) == {t \in alertScheduler.timers : t.messageId = messageId}

\* C25: at any time at most one alert is armed per key, and a scheduleAlert
\* that goes through leaves armed under its key the timer it created and no
\* other, so that only the most recently scheduled alert of the key can fire
C25_AtMostOneArmedPerKey ==
  /\ \A k \in AlertKeys : Cardinality(ArmedUnder(k)) <= 1
  /\ (last.op = "scheduleAlert" /\ last.working)
     => ArmedUnder(last.messageId)
          = {t \in alertScheduler.timers : t.id = alertScheduler.nextTimer}

\* the timers cancelAlert stopped before they fired
ClearedIds == {t.id : t \in alertScheduler.cleared}

\* C26: once cancelAlert has stopped an alert whose timer had not fired, no
\* later step sends the escalation of that alert, whatever the clock shows;
\* and a cancelAlert under a key with no pending alert changes nothing
C26_Step ==
  /\ Len(alertScheduler'.sent) > Len(alertScheduler.sent)
     => LET e == alertScheduler'.sent[Len(alertScheduler'.sent)] IN
        e.timerId \notin ClearedIds /\ e.alert \notin ClearedIds
  /\ (last'.op = "cancelAlert"
      /\ PendingAlertsGet(alertScheduler, last'.messageId) = {})
     => alertScheduler' = alertScheduler

C26_CancelledAlertNeverSent == [][C26_Step]_vars

\* an alert was cancelled before its timer fired and its delay has passed
C26_Witness ==
  \E t \in alertScheduler.cleared :
    /\ now > t.due
    /\ \A i \in 1..Len(alertScheduler.sent) : alertScheduler.sent[i].timerId /= t.id

\* C27: the callback of a timer calls create() at most once, before or after
\* the call returns nothing sends again for that timer, and when the call
\* ends, with code 0, with an error code or by throwing, the pending set
\* holds no entry under the alert's key
C27_Step ==
  /\ \A i, j \in 1..Len(alertScheduler'.sent) :
       alertScheduler'.sent[i].timerId = alertScheduler'.sent[j].timerId => i = j
  /\ last'.op = "timerFire"
     => Len(alertScheduler'.sent) <= Len(alertScheduler.sent) + 1
  /\ last'.op = "sendDone"
     => /\ PendingAlertsGet(alertScheduler', last'.messageId) = {}
        /\ alertScheduler'.sent = alertScheduler.sent
        /\ alertScheduler'.timers = alertScheduler.timers

C27_SentOnceEntryRemoved == [][C27_Step]_vars

\* a send that threw, or was answered with an error code, has ended
C27_Witness ==
  /\ last.op = "sendDone"
  /\ last.outcome \in {"errorCode", "throw"}
  /\ \E i \in 1..Len(alertScheduler.sent) : alertScheduler.sent[i].timerId = last.timerId
  /\ PendingAlertsGet(alertScheduler, last.messageId) = {}
  /\ now = MaxTime

\* C22: after the webhook has handled a card-action event that names a
\* message, no alert is pending and no timer is armed under that message,
\* whatever the event otherwise is
C22_EveryCardEventCancels ==
  (last.op = "cardAction" /\ Truthy(last.messageId))
  => /\ PendingAlertsGet(alertScheduler, last.messageId) = {}
     /\ \A t \in alertScheduler.timers : t.messageId /= last.messageId

\* C23: once a click has resolved a request, no later step sends the
\* escalation of the alert scheduled under that request's card
C23_Step ==
  Len(alertScheduler'.sent) > Len(alertScheduler.sent)
  => LET e == alertScheduler'.sent[Len(alertScheduler'.sent)] IN
     \A i \in 1..(MaxReq + 1) :
       e.messageId = MessageIdOf(i) => first[i] = NoResolve

C23_NoAlertAfterResolution == [][C23_Step]_vars

\* C28: cleanup removes exactly the requests older than twice the TTL,
\* whatever their status, returns how many it removed, and leaves every
\* younger request as it was
C28_Step ==
  last'.op = "cleanup"
  => LET old == {i \in DOMAIN requests :
                   now - requests[i].createdAt > 2 * AUTH_TTL_MS} IN
     /\ DOMAIN requests' = DOMAIN requests \ old
     /\ \A i \in DOMAIN requests' : requests'[i] = requests[i]
     /\ last'.count = Cardinality(old)

C28_CleanupRemovesExactlyTheOld == [][C28_Step]_vars

\* a cleanup removed the older request and kept the younger one
C28_Witness ==
  /\ last.op = "cleanup"
  /\ last.count = 1
  /\ first[1] = NoResolve /\ lost[1] = "cleanup"
  /\ 2 \in DOMAIN requests
  /\ 1 \notin DOMAIN requests

\* C29: sendWithRetry makes at most two send attempts; it makes the second
\* only when the first threw and both a chat target and a project root were
\* given, and then to the group it has just obtained; the error of the second
\* attempt, or of the first when there is no retry, reaches the caller
C29_SendWithRetry ==
  last.op = "sendWithRetry"
  => LET in == last.input
         out == last.out
         retriable == in.chatId \notin {Undefined, ""}
                      /\ in.projectRoot \notin {Undefined, ""}
     IN
     /\ Len(out.attempts) \in {1, 2}
     /\ out.attempts[1] = in.chatId
     /\ Len(out.attempts) = 2
        => /\ in.env.first = "throw"
           /\ retriable
           /\ out.groups = 1
           /\ out.attempts[2] = in.env.group
     /\ (Len(out.attempts) = 2 /\ in.env.second = "throw") => out.threw = "second"
     /\ (in.env.first = "throw" /\ ~retriable) => out.threw = "first"
     /\ in.env.first /= "throw" => out.threw = "no"

\* the retry was made, and it failed too
C29_Witness ==
  /\ last.op = "sendWithRetry"
  /\ Len(last.out.attempts) = 2
  /\ last.out.attempts[2] = "oc_new"
  /\ last.out.threw = "second"

\* C30: the script writes an allow only in a step where its command is on
\* the safe-command list, or the server's reply to the creation carries
\* decision allow from a rule that matched, or a poll returned status
\* resolved with decision allow; whatever else happens to the request, what
\* the script has written is a deny or nothing
C30_Step ==
  /\ (hook'.out.decision = "allow" /\ hook.out.decision /= "allow")
     => \/ /\ last'.op = "hookStart"
           /\ ~hook'.contacted
           /\ Truthy(HookCommand(hook'.payload))
           /\ isSafeCommand(hook'.script, HookCommand(hook'.payload))
        \/ /\ last'.op = "hookCreate"
           /\ last'.response.http = 200
           /\ last'.response.decision = "allow"
           /\ \E i \in 1..Len(rules) : rules[i].id = last'.response.ruleId
        \/ /\ last'.op = "hookPoll"
           /\ hook'.reply.http = 200
           /\ hook'.reply.status = "resolved"
           /\ hook'.reply.decision = "allow"
  /\ hook'.out.decision \in {"allow", "deny", Undefined}

C30_AllowOnlyWhenGranted == [][C30_Step]_vars

\* the poll loop ended with an allow after a poll had failed
C30_Witness ==
  /\ hook.pc = "exited"
  /\ hook.out.decision = "allow"
  /\ hook.failedPolls
  /\ hook.reply.status = "resolved"
  /\ hook.reply.decision = "allow"

\* the script gave up on its request: the deadline of the poll loop passed and
\* it wrote a deny
ClientTimedOut ==
  /\ hook.pc = "exited"
  /\ hook.requestId /= 0
  /\ hook.out.decision = "deny"
  /\ hook.out.reason = TimeoutReason

\* C31: once the script has written deny for its request because its own
\* deadline passed, no step resolves that request as allow and no step
\* derives a rule
C31_Step ==
  ClientTimedOut
  => /\ \A i \in DOMAIN requests' :
          (i = hook.requestId /\ requests'[i].status = "resolved"
           /\ requests'[i].decision = "allow")
          => (i \in DOMAIN requests /\ requests[i].status = "resolved")
     /\ rules' = rules

C31_NoClickAfterClientTimeout == [][C31_Step]_vars

\* C32: no step moves a request to resolved when more than the TTL has
\* elapsed since its creation, whether or not get() was called on it after
\* the TTL elapsed
C32_Step ==
  \A i \in DOMAIN requests :
    (i \in DOMAIN requests' /\ requests[i].status /= "resolved"
     /\ requests'[i].status = "resolved")
    => now - requests[i].createdAt <= AUTH_TTL_MS

C32_NoResolveAfterTtl == [][C32_Step]_vars

\* C33: a card action that resolves a request as allow carries a label that
\* is one of the options stored with that request
C33_AllowOnlyByStoredOption ==
  ( /\ last.op = "cardAction"
    /\ last.branch = "resolve"
    /\ last.id \in DOMAIN requests
    /\ requests[last.id].decision = "allow" )
  => \E k \in 1..Len(requests[last.id].options) :
       requests[last.id].options[k] = last.label

\* C34: the pattern createPatternFromCommand derives from a command matches
\* that command
C34_DerivedPatternMatchesItsCommand ==
  ( /\ last.op = "matchGlob"
    /\ last.pattern = createPatternFromCommand(last.text) )
  => last.returned

\* a poll of the request the script was answered resolved for
PolledAgainAfterResolved ==
  /\ hook.reply.status = "resolved"
  /\ last.op = "authPoll"
  /\ last.id = hook.requestId

\* C35 as claimed: once a poll has answered resolved with decision d, every
\* later poll of the requestId answers resolved with d
C35_Claimed ==
  PolledAgainAfterResolved
  => /\ last.response.status = "resolved"
     /\ last.response.decision = hook.reply.decision

\* C35: once a poll has answered resolved with decision d, every later poll
\* of the requestId made while the store still holds the request answers
\* resolved with d, never pending or expired
C35_ResolvedPollIsStable ==
  (PolledAgainAfterResolved /\ hook.requestId \in DOMAIN requests)
  => /\ last.response.status = "resolved"
     /\ last.response.decision = hook.reply.decision

\* the request was polled again after its TTL had passed
C35_Witness ==
  /\ PolledAgainAfterResolved
  /\ hook.requestId \in DOMAIN requests
  /\ now - requests[hook.requestId].createdAt > AUTH_TTL_MS
  /\ last.response.decision = "deny"

\* C36: an alert that was scheduled and whose timer has neither fired nor
\* been cancelled keeps its entry in the pending set, also when it was
\* scheduled while an earlier alert of the same key was being sent
C36_ArmedAlertKeepsItsEntry ==
  \A t \in alertScheduler.timers :
    \E a \in alertScheduler.pendingAlerts :
      a.messageId = t.messageId /\ a.timerId = t.id

\* C40: every alert the pre-tool endpoint has armed names an operator, and
\* every escalation sent is addressed to one
C40_ArmedAlertNamesOperator ==
  /\ \A a \in alertScheduler.pendingAlerts : Truthy(a.adminUserId)
  /\ \A i \in 1..Len(alertScheduler.sent) : Truthy(alertScheduler.sent[i].receive_id)

\* C39 as stated: across any sequence of webhook deliveries, an event id that
\* has been handed to a handler once is never handed to a handler again.
C39_Claimed_Step ==
  (last'.op = "cardAction" /\ Truthy(last'.eventId)
     /\ last'.eventId \in dispatched)
    => last'.branch = "duplicateEvent"

C39_Claimed == [][C39_Claimed_Step]_vars

\* C39: a delivery whose event id is still among the MAX_EVENT_CACHE ids the
\* webhook remembers is not dispatched: no handler runs, and the requests,
\* the rules, the alerts and the remembered ids stay as they were.
C39_Step ==
  (last'.op = "cardAction" /\ Truthy(last'.eventId)
     /\ \E i \in 1..Len(processedEvents) :
          processedEvents[i] = last'.eventId)
    => /\ last'.branch = "duplicateEvent"
       /\ UNCHANGED <<requests, rules, ruleIds, alertScheduler,
                      processedEvents, dispatched>>

C39_RememberedEventDispatchedOnce == [][C39_Step]_vars

\* a remembered event id was delivered again and dropped before any handler
C39_Witness ==
  /\ last.op = "cardAction"
  /\ last.branch = "duplicateEvent"
  /\ last.eventId \in dispatched
  /\ \E i \in 1..Len(processedEvents) : processedEvents[i] = last.eventId

\* C37: at most one Claude process runs for a session at any time, whatever
\* the order in which messages arrive, calls resume and processes end.
C37_OneProcessPerSession ==
  \A c1, c2 \in sessionManager.children :
    c1.sessionId = c2.sessionId => c1 = c2

\* C38: a message queued for a session is eventually run: as long as
\* messages are queued for a session, the session has a process whose end
\* will start the oldest of them, or a call of continueSession that is about
\* to spawn one; a queue is never left with nothing to start it.
C38_QueuedMessageHasARunner ==
  \A s \in Sessions :
    sessionManager.sessionQueues[s] /= <<>>
      => \/ \E c \in sessionManager.children : c.sessionId = s
         \/ \E a \in sessionManager.awaiting : a.sessionId = s

====
